---- MODULE Spec2Model ----
(***************************************************************************)
(* Blog creator: the session record (session.py), its durable store        *)
(* (vendored_toolkit/file_ops.py) and the three orchestrators that drive   *)
(* it: the CLI workflow (cli/main.py over core/workflow.py), the legacy    *)
(* pipeline (main.py over content_phase.py) and the web workflow           *)
(* (web/routes/progress.py, web/routes/content.py).                        *)
(*                                                                         *)
(* Spec        one session directory, runs of the command-line front ends  *)
(* SpecWeb     one session directory, the web workflow and its requests    *)
(* SpecSession the SessionManager operations called in any order           *)
(* SpecWrite   one SessionManager.save, write_json step by step            *)
(* SpecStream  the progress stream of one session and its connections      *)
(* SpecImages  one illustration run: generation fan-out, then insertion    *)
(* SpecReview  the reviewers' outputs and the revision decision            *)
(* SpecDraft   the drafts of one session: writer calls and draft files     *)
(* SpecExec    one RecipeExecutor.execute: streaming, timeout, shutdown    *)
(* SpecOpen    one SessionManager constructed on a session directory       *)
(* SpecLog     the user_feedback and iteration_history logs of a session   *)
(* SpecCreate  sessions created with the default directory, then reopened  *)
(* SpecLoop    Spec without crashes and exits, its steps taken fairly      *)
(* SpecStreamLive  SpecStream, generators and task starts taken fairly     *)
(***************************************************************************)
EXTENDS Integers, Sequences, FiniteSets, TLC

VARIABLES
  disk,      \* the record held by state.json
  mem,       \* SessionManager.state of the manager in use
  run,       \* the orchestrator in flight: its kind, position and locals
  obs,       \* what the run in flight has done so far (history)
  prev,      \* how the previous run ended (history)
  runs,      \* runs started so far
  faults,    \* state saves that may still fail
  outfile,   \* content of the final output file
  calls,     \* SpecSession: results of the increment_iteration calls so far
  fs,        \* SpecWrite: content of the files of the session directory
  w,         \* SpecWrite: position and locals of save / write_json
  stream,    \* SpecStream: progress_queues, the queues, tasks and connections
  img,       \* SpecImages: one illustration run, its generations and insertions
  calc,      \* SpecReview: reviewer outputs and what was computed from them
  gen,       \* SpecDraft: the draft of one session, its files and the writer calls
  proc,      \* SpecExec: one RecipeExecutor.execute and its subprocess
  opened,    \* SpecOpen: one SessionManager being constructed on a directory
  logs,      \* SpecLog: the feedback and history logs of one session
  created    \* SpecCreate: the clock, the session directories and their managers

vars == <<disk, mem, run, obs, prev, runs, faults, outfile, calls, fs, w,
          stream, img, calc, gen, proc, opened, logs, created>>
orchVars == <<run, obs, prev, runs, outfile>>
otherVars == <<calls, fs, w, stream, img, calc, gen, proc, opened, logs, created>>

----------------------------------------------------------------------------
(* Bounds of the model *)

MaxRuns == 2          \* runs started on the session
MaxFaults == 1        \* failing state saves
MaxIterations == 2    \* largest --max-iterations option tried
MaxCalls == 4         \* SpecSession: operations called
MaxSaves == 2         \* SpecWrite: saves made one after the other
WriteChunks == 2      \* SpecWrite: pieces json.dump writes a record in
MaxClock == 2         \* SpecSession: seconds that pass, as read by datetime.now()

(* Program constants *)

DefaultMaxIterations == 10
MaxRetries == 3
RetryDelay == 5       \* retry_delay = 0.5, in tenths of a second
MaxConnections == 3   \* SpecStream: connections made to one progress stream
MaxMessages == 2      \* SpecStream: messages put on one progress queue
MaxPoints == 3        \* SpecImages: illustration points of one run
MaxDraftIterations == 3  \* SpecDraft: iterations of the revision loop
MaxLines == 2         \* SpecExec: output lines read from the subprocess
StreamTimeout == 2    \* SpecExec: ticks of the 1800.0 s streaming timeout
GraceTimeout == 1     \* SpecExec: ticks of the 5.0 s wait after terminate
MaxSessions == 3
MaxTicks == 4
TicksPerSecond == 2
MaxLogIterations == 3    \* SpecLog: iterations of the revision loop
ScoreThreshold == 70  \* consistency_score < 0.7, in hundredths
DefaultScore == 80    \* parsed.get("consistency_score", 0.8), in hundredths

----------------------------------------------------------------------------
(* Values *)

NoText == ""
BriefText == "brief"                 \* the idea text itself
DraftTexts == {"draft"}              \* what the generator may return for a first draft
RevisedTexts == {"revised"}          \* what the generator may return for a revision
EditedTexts == {"edit"}              \* what the user may type in the editor

NoIssues == <<>>
SourceIssueLists == {NoIssues, <<"fact X wrong">>}
StyleIssueLists == {NoIssues, <<"too formal">>}

\* A review dict as the orchestrators read it: d.get("issues", []) and
\* d.get("needs_revision", False); the empty dict reads as EmptyReview.
EmptyReview == [issues |-> NoIssues, needs_revision |-> FALSE]

\* SessionState(session_id=...): the field defaults.
FreshState ==
  [session_id |-> 0,
   stage |-> "initialized",
   iteration |-> 0,
   max_iterations |-> DefaultMaxIterations,
   style_profile |-> FALSE,
   current_draft |-> NoText,
   source_review |-> EmptyReview,
   style_review |-> EmptyReview,
   output_path |-> FALSE]

ClosedStages == {"initialized", "style_extracted", "draft_written", "revision_complete", "complete"}

StageRank(s) ==
  CASE s = "initialized" -> 0
    [] s = "extracting_style" -> 0
    [] s = "style_extracted" -> 1
    [] s = "writing_draft" -> 1
    [] s = "draft_written" -> 2
    [] s = "revision_complete" -> 3
    [] s = "complete" -> 4
    [] OTHER -> 0

----------------------------------------------------------------------------
(* SessionManager: the operations on the in-memory state *)

\* save(): write_json of the state; a failure is logged and swallowed, the
\* file then keeps the record of the last save that worked.
Save(m, d, ok) == IF ok THEN m ELSE d

update_stage(m, s) == [m EXCEPT !.stage = s]

set_style_profile(m) == [m EXCEPT !.style_profile = TRUE]

update_draft(m, t) == [m EXCEPT !.current_draft = t]

set_source_review(m, r) == [m EXCEPT !.source_review = r]

set_style_review(m, r) == [m EXCEPT !.style_review = r]

\* Mutant: the counter stops at max_iterations.
IncrementedStateCapped(m) ==
  [m EXCEPT !.iteration = IF @ < m.max_iterations THEN @ + 1 ELSE @]

\* increment_iteration: the counter is advanced first, then compared.
IncrementedState(m) == [m EXCEPT !.iteration = @ + 1]

\* Mutant: the comparison is off by one.
IncrementAcceptedOffByOne(m) == ~(IncrementedState(m).iteration >= m.max_iterations)

\* Mutant: one call more is accepted.
IncrementAcceptedOneMore(m) == ~(IncrementedState(m).iteration > m.max_iterations + 1)

IncrementAccepted(m) == ~(IncrementedState(m).iteration > m.max_iterations)

\* reset(): SessionState(session_id=<now, to the second>); the clock never
\* runs backwards, so now is the second the old id was taken in or a later one.
ResetStates(m) == {[FreshState EXCEPT !.session_id = t] : t \in m.session_id..MaxClock}

----------------------------------------------------------------------------
(* The state file as JSON: asdict and json.dump, then json.load and the
   SessionState constructor *)

JsonNull == [t |-> "null", v |-> 0]

JsonString(x) == [t |-> "string", v |-> x]

JsonNumber(n) == [t |-> "number", v |-> n]

JsonBool(b) == [t |-> "bool", v |-> b]

JsonArray(xs) == [t |-> "array", v |-> [i \in DOMAIN xs |-> JsonString(xs[i])]]

JsonObject(r) == [t |-> "object", v |-> r]

\* Mutant: None is written as the text "None".
JsonOptionalAsText(present) == JsonString(IF present THEN "path" ELSE "None")

\* output_path: str | None
JsonOptional(present) == IF present THEN JsonString("path") ELSE JsonNull

\* A review dict.
JsonReview(r) == JsonObject([issues |-> JsonArray(r.issues), needs_revision |-> JsonBool(r.needs_revision)])

FromJsonReview(j) ==
  [issues |-> [i \in DOMAIN j.v.issues.v |-> j.v.issues.v[i].v],
   needs_revision |-> j.v.needs_revision.v]

\* save(): asdict(self.state), written by json.dump.
StateDict(m) ==
  [session_id |-> JsonString(m.session_id),
   stage |-> JsonString(m.stage),
   iteration |-> JsonNumber(m.iteration),
   max_iterations |-> JsonNumber(m.max_iterations),
   style_profile |-> JsonObject(IF m.style_profile THEN {"tone", "voice"} ELSE {}),
   current_draft |-> JsonString(m.current_draft),
   source_review |-> JsonReview(m.source_review),
   style_review |-> JsonReview(m.style_review),
   output_path |-> JsonOptional(m.output_path)]

\* _load_state(): SessionState(**read_json(state_file)).
LoadState(data) ==
  [session_id |-> data.session_id.v,
   stage |-> data.stage.v,
   iteration |-> data.iteration.v,
   max_iterations |-> data.max_iterations.v,
   style_profile |-> (data.style_profile.v # {}),
   current_draft |-> data.current_draft.v,
   source_review |-> FromJsonReview(data.source_review),
   style_review |-> FromJsonReview(data.style_review),
   output_path |-> (data.output_path.t = "string")]

----------------------------------------------------------------------------
(* Reviewers *)

\* SourceReviewer.review_sources: a list of issues and a flag.
SourceReviews == [issues : SourceIssueLists, needs_revision : BOOLEAN]

\* StyleReviewer.review_style on a parsed answer: the flag is forced when
\* issues were found.
StyleReviewOf(issues, own_flag) ==
  [issues |-> issues, needs_revision |-> (own_flag \/ issues # NoIssues)]

StyleReviews == {StyleReviewOf(i, f) : i \in StyleIssueLists, f \in BOOLEAN}

\* dict.get(k, default)
DictGet(d, k, default) == IF k \in DOMAIN d THEN d[k] ELSE default

\* Mutant: only the flag of the source reviewer is read.
needs_revisionSourceOnly(rr) == rr.source_review.needs_revision

\* Mutant: both reviewers must ask for the revision.
needs_revisionBoth(rr) ==
  /\ DictGet(rr.source_review, "needs_revision", FALSE)
  /\ DictGet(rr.style_review, "needs_revision", FALSE)

\* ReviewResult.needs_revision
needs_revision(rr) ==
  \/ DictGet(rr.source_review, "needs_revision", FALSE)
  \/ DictGet(rr.style_review, "needs_revision", FALSE)

\* ContentPhase.run, "Check if revision needed": the same test, read from
\* the reviews stored in the session state.
ContentNeedsRevision(m) ==
  \/ DictGet(m.source_review, "needs_revision", FALSE)
  \/ DictGet(m.style_review, "needs_revision", FALSE)

NoReviewResult == [source_review |-> EmptyReview, style_review |-> EmptyReview]

----------------------------------------------------------------------------
(* Feedback *)

\* UserFeedbackHandler.get_user_feedback: the parsed answer of the user.
ParsedFeedback ==
  {[action |-> "approve", is_approved |-> TRUE, has_feedback |-> FALSE, continue_iteration |-> FALSE],
   [action |-> "skip", is_approved |-> FALSE, has_feedback |-> FALSE, continue_iteration |-> TRUE],
   [action |-> "revise", is_approved |-> FALSE, has_feedback |-> TRUE, continue_iteration |-> TRUE]}

UserRequests == <<"more examples">>

\* CLIInputHandler.get_feedback: the parsed answer as a RevisionFeedback.
get_feedback(parsed, source_issues, style_issues) ==
  IF parsed.is_approved
    THEN [action |-> "approve", source_issues |-> source_issues, style_issues |-> style_issues, user_requests |-> <<>>]
    ELSE IF ~parsed.has_feedback
      THEN [action |-> "skip", source_issues |-> source_issues, style_issues |-> style_issues, user_requests |-> <<>>]
      ELSE [action |-> "revise", source_issues |-> source_issues, style_issues |-> style_issues, user_requests |-> UserRequests]

NoFeedback == [action |-> "skip", source_issues |-> NoIssues, style_issues |-> NoIssues, user_requests |-> <<>>]

\* Mutant: an approval is never recognised.
is_approvedNever(fb) == FALSE

is_approved(fb) == fb.action = "approve"

has_feedback(fb) == fb.user_requests # <<>> \/ fb.action = "revise"

\* revise_draft: the feedback dict handed to BlogWriter.write_blog.
RevisionRequest(fb) ==
  [source_issues |-> fb.source_issues, style_issues |-> fb.style_issues, user_requests |-> fb.user_requests]

\* BlogWriter.write_blog with a previous draft and feedback: the revised text,
\* or the previous draft when the call fails; with an empty previous draft the
\* initial-draft branch is taken.
RevisionTexts(previous, brain_dump) ==
  IF previous # NoText THEN RevisedTexts \cup {previous} ELSE DraftTexts \cup {brain_dump}

\* BlogWriter.write_blog without a previous draft: the text, or the idea text
\* when the call fails (_fallback_transform returns the brain dump).
InitialTexts(brain_dump) == DraftTexts \cup {brain_dump}

----------------------------------------------------------------------------
(* Runs: bookkeeping shared by the orchestrators *)

Idle ==
  [kind |-> "none", pc |-> "idle", review |-> NoReviewResult, feedback |-> NoFeedback,
   stage |-> "", brain_dump |-> NoText, draft |-> NoText]

NoObs ==
  [startStage |-> "", startBounded |-> FALSE, startMax |-> 0, illustrator |-> "none", reviews |-> 0, autosave |-> NoText, extracted |-> FALSE, drafted |-> FALSE,
   autoRevised |-> FALSE, autoText |-> NoText, acts |-> {}, skipped |-> FALSE,
   reqs |-> {}, rejected |-> FALSE, inflight |-> "none",
   reported |-> FALSE, discarded |-> NoText]

NoPrev == [result |-> "none", inflight |-> "none"]

SaveOutcomes == IF faults > 0 THEN BOOLEAN ELSE {TRUE}

\* One SessionManager mutator: the new in-memory state, then save().
Mutate(newMem, ok) ==
  /\ mem' = newMem
  /\ disk' = Save(newMem, disk, ok)
  /\ faults' = IF ok THEN faults ELSE faults - 1

Goto(pc) == run' = [run EXCEPT !.pc = pc]

\* An exception reaches the orchestrator's except clause: the run reports failure.
Raise(op) ==
  /\ run' = [run EXCEPT !.pc = "failed"]
  /\ obs' = [obs EXCEPT !.inflight = op]
  /\ UNCHANGED <<disk, mem, faults, outfile, prev, runs>>

Running(kind, pc) == run.kind = kind /\ run.pc = pc

\* The process is killed between two steps.
Crash ==
  /\ run.kind # "none"
  /\ run.pc \notin {"done", "failed"}
  /\ run' = Idle
  /\ obs' = NoObs
  /\ prev' = [result |-> "crashed", inflight |-> "none"]
  /\ mem' = disk
  /\ UNCHANGED <<disk, faults, outfile, runs>>

\* The run returns: True after "done", False after "failed".
Exit ==
  /\ run.pc \in {"done", "failed"}
  /\ run' = Idle
  /\ obs' = NoObs
  /\ prev' = [result |-> IF run.pc = "done" THEN "ok" ELSE "failed", inflight |-> obs.inflight]
  /\ mem' = disk
  /\ UNCHANGED <<disk, faults, outfile, runs>>

----------------------------------------------------------------------------
(* The CLI workflow: cli/main.py over core/workflow.py *)

\* main(): SessionManager(session_dir) loads the record; the option
\* --max-iterations is written into the in-memory state.
StartCli ==
  /\ run.kind = "none"
  /\ runs < MaxRuns
  /\ \E mi \in 1..MaxIterations :
       mem' = [disk EXCEPT !.max_iterations = mi]
  /\ run' = [Idle EXCEPT !.kind = "cli", !.pc = "style"]
  /\ obs' = [NoObs EXCEPT !.startStage = disk.stage,
                          !.startBounded = (disk.iteration <= mem'.max_iterations),
                          !.startMax = disk.max_iterations]
  /\ runs' = runs + 1
  /\ UNCHANGED <<disk, faults, outfile, prev>>

\* Stage 1, run_style_extraction: extract_style, then set_style_profile.
CliStyleExtraction ==
  /\ Running("cli", "style")
  /\ \/ /\ mem.stage = "initialized"
        /\ \E ok \in SaveOutcomes : Mutate(set_style_profile(mem), ok)
        /\ Goto("style_stage")
        /\ obs' = [obs EXCEPT !.extracted = TRUE]
        /\ UNCHANGED <<outfile, prev, runs>>
     \/ /\ mem.stage = "initialized"
        /\ Raise("extract")
     \/ /\ mem.stage # "initialized"
        /\ Goto("draft")
        /\ UNCHANGED <<disk, mem, faults, obs, outfile, prev, runs>>

CliStyleStage ==
  /\ Running("cli", "style_stage")
  /\ \E ok \in SaveOutcomes : Mutate(update_stage(mem, "style_extracted"), ok)
  /\ Goto("draft")
  /\ UNCHANGED <<obs, outfile, prev, runs>>

\* Stage 2, run_draft_generation: StyleProfile(**style_profile), generate_draft,
\* update_draft.
CliDraftGeneration ==
  /\ Running("cli", "draft")
  /\ \/ /\ mem.stage = "style_extracted"
        /\ \E t \in InitialTexts(BriefText), ok \in SaveOutcomes : Mutate(update_draft(mem, t), ok)
        /\ run' = [run EXCEPT !.pc = "draft_stage", !.brain_dump = BriefText]
        /\ obs' = [obs EXCEPT !.drafted = TRUE]
        /\ UNCHANGED <<outfile, prev, runs>>
     \/ /\ mem.stage # "style_extracted"
        /\ Goto("loop")
        /\ UNCHANGED <<disk, mem, faults, obs, outfile, prev, runs>>

CliDraftStage ==
  /\ Running("cli", "draft_stage")
  /\ \E ok \in SaveOutcomes : Mutate(update_stage(mem, "draft_written"), ok)
  /\ Goto("loop")
  /\ UNCHANGED <<obs, outfile, prev, runs>>

\* The head of the review loop: the stage test, then increment_iteration.
CliLoop ==
  /\ Running("cli", "loop")
  /\ \/ /\ mem.stage \in {"draft_written", "revision_complete"}
        /\ IncrementAccepted(mem)
        /\ \E ok \in SaveOutcomes : Mutate(IncrementedState(mem), ok)
        /\ Goto("review")
        /\ obs' = [obs EXCEPT !.skipped = FALSE, !.reqs = {}]
        /\ UNCHANGED <<outfile, prev, runs>>
     \/ /\ mem.stage \in {"draft_written", "revision_complete"}
        /\ ~IncrementAccepted(mem)
        /\ mem' = IncrementedState(mem)
        /\ Goto("final")
        /\ obs' = [obs EXCEPT !.rejected = TRUE, !.reported = TRUE, !.skipped = FALSE, !.reqs = {}]
        /\ UNCHANGED <<disk, faults, outfile, prev, runs>>
     \/ /\ mem.stage \notin {"draft_written", "revision_complete"}
        /\ Goto("final")
        /\ UNCHANGED <<disk, mem, faults, obs, outfile, prev, runs>>

\* run_review: both reviewers are called, then set_source_review.
CliReview ==
  /\ Running("cli", "review")
  /\ \E sr \in SourceReviews, yr \in StyleReviews, ok \in SaveOutcomes :
       /\ Mutate(set_source_review(mem, sr), ok)
       /\ run' = [run EXCEPT !.pc = "review_style",
                             !.review = [source_review |-> sr, style_review |-> yr]]
  /\ obs' = [obs EXCEPT !.reviews = @ + 1]
  /\ UNCHANGED <<outfile, prev, runs>>

\* run_review, continued: set_style_review.
CliReviewStyle ==
  /\ Running("cli", "review_style")
  /\ \E ok \in SaveOutcomes : Mutate(set_style_review(mem, run.review.style_review), ok)
  /\ Goto("feedback")
  /\ UNCHANGED <<obs, outfile, prev, runs>>

\* get_feedback and the branch on it.
CliFeedback ==
  /\ Running("cli", "feedback")
  /\ \E parsed \in ParsedFeedback :
       LET fb == get_feedback(parsed, run.review.source_review.issues, run.review.style_review.issues)
           next == IF is_approved(fb) THEN "final"
                   ELSE IF ~has_feedback(fb)
                     THEN (IF needs_revision(run.review) THEN "revise" ELSE "loop")
                     ELSE "revise"
       IN /\ run' = [run EXCEPT !.pc = next, !.feedback = IF next = "revise" THEN fb ELSE NoFeedback]
          /\ obs' = [obs EXCEPT !.acts = @ \cup {parsed.action},
                                !.skipped = (parsed.action = "skip")]
  /\ UNCHANGED <<disk, mem, faults, outfile, prev, runs>>

\* run_revision: revise_draft, then update_draft.
CliRevision ==
  /\ Running("cli", "revise")
  /\ \E t \in RevisionTexts(mem.current_draft, run.brain_dump), ok \in SaveOutcomes :
       /\ Mutate(update_draft(mem, t), ok)
       /\ obs' = [obs EXCEPT !.reqs = @ \cup {RevisionRequest(run.feedback)},
                             !.autoRevised = @ \/ (run.feedback.action = "skip"),
                             !.autoText = IF run.feedback.action = "skip" THEN t ELSE @]
  /\ run' = [run EXCEPT !.pc = "revise_stage", !.feedback = NoFeedback]
  /\ UNCHANGED <<outfile, prev, runs>>

CliRevisionStage ==
  /\ Running("cli", "revise_stage")
  /\ \E ok \in SaveOutcomes : Mutate(update_stage(mem, "revision_complete"), ok)
  /\ Goto("loop")
  /\ UNCHANGED <<obs, outfile, prev, runs>>

\* Save final output: safe_write_text, state.output_path, save().
CliFinalOutput ==
  /\ Running("cli", "final")
  /\ outfile' = mem.current_draft
  /\ \E ok \in SaveOutcomes : Mutate([mem EXCEPT !.output_path = TRUE], ok)
  /\ \E with_images \in BOOLEAN : Goto(IF with_images THEN "illustrate" ELSE "complete")
  /\ UNCHANGED <<obs, prev, runs>>

\* Stage 5 (with_images): IllustrationPhase.run on the written output.  It
\* returns the article path (no points, no images), or the path of the
\* illustrated copy, which is noted in the state and saved (the path is not
\* a field of the modelled record: the save rewrites the record from
\* memory), or it raises.
CliIllustration ==
  /\ Running("cli", "illustrate")
  /\ \/ /\ obs' = [obs EXCEPT !.illustrator = "done"]
        /\ \/ UNCHANGED <<disk, mem, faults>>
           \/ \E ok \in SaveOutcomes : Mutate(mem, ok)
        /\ Goto("complete")
     \/ /\ obs' = [obs EXCEPT !.illustrator = "failed", !.inflight = "illustration"]
        /\ run' = [run EXCEPT !.pc = "failed"]
        /\ UNCHANGED <<disk, mem, faults>>
  /\ UNCHANGED <<outfile, prev, runs>>

\* Completion: mark_complete.
CliComplete ==
  /\ Running("cli", "complete")
  /\ \E ok \in SaveOutcomes : Mutate(update_stage(mem, "complete"), ok)
  /\ Goto("done")
  /\ UNCHANGED <<obs, outfile, prev, runs>>


----------------------------------------------------------------------------
(* The legacy pipeline: main.py over content_phase.py *)

\* main(): the manager loads the record, --max-iterations is written into the
\* state, and the state is saved.
StartLegacy ==
  /\ run.kind = "none"
  /\ runs < MaxRuns
  /\ \E mi \in 1..MaxIterations, ok \in SaveOutcomes :
       Mutate([disk EXCEPT !.max_iterations = mi], ok)
  /\ run' = [Idle EXCEPT !.kind = "legacy", !.pc = "style"]
  /\ obs' = [NoObs EXCEPT !.startStage = disk.stage,
                          !.startBounded = (disk.iteration <= mem'.max_iterations),
                          !.startMax = disk.max_iterations]
  /\ runs' = runs + 1
  /\ UNCHANGED <<outfile, prev>>

\* run_pipeline, phase 1: the stage test, then update_stage("extracting_style").
LegacyStyle ==
  /\ Running("legacy", "style")
  /\ \/ /\ mem.stage = "initialized"
        /\ \E ok \in SaveOutcomes : Mutate(update_stage(mem, "extracting_style"), ok)
        /\ Goto("extract")
        /\ UNCHANGED <<obs, outfile, prev, runs>>
     \/ /\ mem.stage # "initialized"
        /\ Goto("content")
        /\ UNCHANGED <<disk, mem, faults, obs, outfile, prev, runs>>

\* StyleExtractor.extract_style, then set_style_profile.
LegacyExtract ==
  /\ Running("legacy", "extract")
  /\ \/ /\ \E ok \in SaveOutcomes : Mutate(set_style_profile(mem), ok)
        /\ Goto("style_stage")
        /\ obs' = [obs EXCEPT !.extracted = TRUE]
        /\ UNCHANGED <<outfile, prev, runs>>
     \/ Raise("extract")

LegacyStyleStage ==
  /\ Running("legacy", "style_stage")
  /\ \E ok \in SaveOutcomes : Mutate(update_stage(mem, "style_extracted"), ok)
  /\ Goto("content")
  /\ UNCHANGED <<obs, outfile, prev, runs>>

\* ContentPhase.run: stage is read once; _write_initial_draft starts with
\* update_stage("writing_draft").
LegacyContent ==
  /\ Running("legacy", "content")
  /\ \/ /\ mem.stage = "style_extracted"
        /\ \E ok \in SaveOutcomes : Mutate(update_stage(mem, "writing_draft"), ok)
        /\ run' = [run EXCEPT !.pc = "write", !.stage = "style_extracted", !.brain_dump = BriefText]
        /\ UNCHANGED <<obs, outfile, prev, runs>>
     \/ /\ mem.stage # "style_extracted"
        /\ run' = [run EXCEPT !.pc = "loop", !.stage = mem.stage, !.brain_dump = BriefText]
        /\ UNCHANGED <<disk, mem, faults, obs, outfile, prev, runs>>

\* _write_initial_draft: write_blog, then update_draft.
LegacyWrite ==
  /\ Running("legacy", "write")
  /\ \E t \in InitialTexts(run.brain_dump), ok \in SaveOutcomes : Mutate(update_draft(mem, t), ok)
  /\ Goto("draft_stage")
  /\ obs' = [obs EXCEPT !.drafted = TRUE]
  /\ UNCHANGED <<outfile, prev, runs>>

LegacyDraftStage ==
  /\ Running("legacy", "draft_stage")
  /\ \E ok \in SaveOutcomes : Mutate(update_stage(mem, "draft_written"), ok)
  /\ run' = [run EXCEPT !.pc = "loop", !.stage = "draft_written"]
  /\ UNCHANGED <<obs, outfile, prev, runs>>

\* The head of the iteration loop: the test of the local stage, then
\* increment_iteration.
LegacyLoop ==
  /\ Running("legacy", "loop")
  /\ \/ /\ run.stage \in {"draft_written", "revision_complete"}
        /\ IncrementAccepted(mem)
        /\ \E ok \in SaveOutcomes : Mutate(IncrementedState(mem), ok)
        /\ Goto("review")
        /\ obs' = [obs EXCEPT !.skipped = FALSE, !.reqs = {}]
        /\ UNCHANGED <<outfile, prev, runs>>
     \/ /\ run.stage \in {"draft_written", "revision_complete"}
        /\ ~IncrementAccepted(mem)
        /\ mem' = IncrementedState(mem)
        /\ Goto("final")
        /\ obs' = [obs EXCEPT !.rejected = TRUE, !.skipped = FALSE, !.reqs = {}]
        /\ UNCHANGED <<disk, faults, outfile, prev, runs>>
     \/ /\ run.stage \notin {"draft_written", "revision_complete"}
        /\ Goto("final")
        /\ UNCHANGED <<disk, mem, faults, obs, outfile, prev, runs>>

\* _review_sources: review_sources, then set_source_review.
LegacyReviewSources ==
  /\ Running("legacy", "review")
  /\ \E sr \in SourceReviews, ok \in SaveOutcomes : Mutate(set_source_review(mem, sr), ok)
  /\ Goto("review_style")
  /\ obs' = [obs EXCEPT !.reviews = @ + 1]
  /\ UNCHANGED <<outfile, prev, runs>>

\* _review_style: review_style, then set_style_review; then the test whether a
\* revision is needed, read from the two stored reviews.
LegacyReviewStyle ==
  /\ Running("legacy", "review_style")
  /\ \E yr \in StyleReviews, ok \in SaveOutcomes :
       LET m == set_style_review(mem, yr)
           needs == ContentNeedsRevision(m)
       IN /\ Mutate(m, ok)
          /\ run' = [run EXCEPT !.pc = IF needs THEN "revise" ELSE "feedback",
                                !.review = [source_review |-> m.source_review, style_review |-> m.style_review]]
  /\ UNCHANGED <<obs, outfile, prev, runs>>

\* _revise_draft: the feedback compiled from the stored reviews.
ReviewFeedback(m) ==
  [source_issues |-> m.source_review.issues, style_issues |-> m.style_review.issues, user_requests |-> <<>>]

\* _revise_draft: write_blog with the review feedback, then update_draft.
LegacyRevise ==
  /\ Running("legacy", "revise")
  /\ \E t \in RevisionTexts(mem.current_draft, run.brain_dump), ok \in SaveOutcomes :
       /\ Mutate(update_draft(mem, t), ok)
       /\ obs' = [obs EXCEPT !.reqs = @ \cup {ReviewFeedback(mem)}, !.autoRevised = TRUE, !.autoText = t]
  /\ Goto("revise_stage")
  /\ UNCHANGED <<outfile, prev, runs>>

LegacyReviseStage ==
  /\ Running("legacy", "revise_stage")
  /\ \E ok \in SaveOutcomes : Mutate(update_stage(mem, "revision_complete"), ok)
  /\ Goto("feedback")
  /\ UNCHANGED <<obs, outfile, prev, runs>>

\* _get_user_feedback and the branch on it; _apply_user_feedback returns at
\* once when the answer holds no feedback.
LegacyFeedback ==
  /\ Running("legacy", "feedback")
  /\ \E parsed \in ParsedFeedback :
       /\ run' = [run EXCEPT
                    !.pc = IF parsed.is_approved THEN "final"
                           ELSE IF parsed.continue_iteration
                             THEN (IF parsed.has_feedback THEN "apply" ELSE "loop")
                             ELSE "final",
                    !.stage = IF ~parsed.is_approved /\ parsed.continue_iteration /\ ~parsed.has_feedback
                              THEN mem.stage ELSE @]
       /\ obs' = [obs EXCEPT !.acts = @ \cup {parsed.action}, !.skipped = (parsed.action = "skip")]
  /\ UNCHANGED <<disk, mem, faults, outfile, prev, runs>>

\* _apply_user_feedback: the feedback of the user with the review issues added.
UserFeedback(m) ==
  [source_issues |-> m.source_review.issues, style_issues |-> m.style_review.issues, user_requests |-> UserRequests]

\* _apply_user_feedback(increment_after=True): write_blog first, then
\* increment_iteration; a rejected increment returns without the draft.
LegacyApply ==
  /\ Running("legacy", "apply")
  /\ \E t \in RevisionTexts(mem.current_draft, run.brain_dump) :
       \/ /\ IncrementAccepted(mem)
          /\ \E ok \in SaveOutcomes : Mutate(IncrementedState(mem), ok)
          /\ run' = [run EXCEPT !.pc = "apply_draft", !.draft = t]
          /\ obs' = [obs EXCEPT !.reqs = @ \cup {UserFeedback(mem)}]
          /\ UNCHANGED <<outfile, prev, runs>>
       \/ /\ ~IncrementAccepted(mem)
          /\ mem' = IncrementedState(mem)
          /\ run' = [run EXCEPT !.pc = "loop", !.stage = mem.stage]
          /\ obs' = [obs EXCEPT !.reqs = @ \cup {UserFeedback(mem)}, !.rejected = TRUE, !.discarded = t]
          /\ UNCHANGED <<disk, faults, outfile, prev, runs>>

LegacyApplyDraft ==
  /\ Running("legacy", "apply_draft")
  /\ \E ok \in SaveOutcomes : Mutate(update_draft(mem, run.draft), ok)
  /\ run' = [run EXCEPT !.pc = "apply_stage", !.draft = NoText]
  /\ UNCHANGED <<obs, outfile, prev, runs>>

LegacyApplyStage ==
  /\ Running("legacy", "apply_stage")
  /\ \E ok \in SaveOutcomes : Mutate(update_stage(mem, "revision_complete"), ok)
  /\ run' = [run EXCEPT !.pc = "loop", !.stage = "revision_complete"]
  /\ UNCHANGED <<obs, outfile, prev, runs>>

\* run_pipeline, save final output: write_text, state.output_path, save().
LegacyFinalOutput ==
  /\ Running("legacy", "final")
  /\ outfile' = mem.current_draft
  /\ \E ok \in SaveOutcomes : Mutate([mem EXCEPT !.output_path = TRUE], ok)
  /\ \E with_images \in BOOLEAN : Goto(IF with_images THEN "illustrate" ELSE "complete")
  /\ UNCHANGED <<obs, prev, runs>>

\* run_pipeline, phase 3 (with_images): IllustrationPhase.run raises, or it
\* returns a path, which is true, and len(generated_images) of a path
\* raises TypeError: either way the except clause ends the run.
LegacyIllustration ==
  /\ Running("legacy", "illustrate")
  /\ obs' = [obs EXCEPT !.illustrator = "failed", !.inflight = "illustration"]
  /\ run' = [run EXCEPT !.pc = "failed"]
  /\ UNCHANGED <<disk, mem, faults, outfile, prev, runs>>

LegacyComplete ==
  /\ Running("legacy", "complete")
  /\ \E ok \in SaveOutcomes : Mutate(update_stage(mem, "complete"), ok)
  /\ Goto("done")
  /\ UNCHANGED <<obs, outfile, prev, runs>>


----------------------------------------------------------------------------
(* The web workflow: web/routes/progress.py and web/routes/content.py *)

\* progress_stream starts run_workflow, which loads the record.
StartWeb ==
  /\ run.kind = "none"
  /\ runs < MaxRuns
  /\ mem' = disk
  /\ run' = [Idle EXCEPT !.kind = "web", !.pc = "style"]
  /\ obs' = [NoObs EXCEPT !.startStage = disk.stage,
                          !.startBounded = (disk.iteration <= disk.max_iterations),
                          !.startMax = disk.max_iterations]
  /\ runs' = runs + 1
  /\ UNCHANGED <<disk, faults, outfile, prev>>

\* Stage 1, run_style_extraction, whatever the stage is.
WebStyleExtraction ==
  /\ Running("web", "style")
  /\ \/ /\ \E ok \in SaveOutcomes : Mutate(set_style_profile(mem), ok)
        /\ Goto("style_stage")
        /\ obs' = [obs EXCEPT !.extracted = TRUE]
        /\ UNCHANGED <<outfile, prev, runs>>
     \/ Raise("extract")

WebStyleStage ==
  /\ Running("web", "style_stage")
  /\ \E ok \in SaveOutcomes : Mutate(update_stage(mem, "style_extracted"), ok)
  /\ Goto("draft")
  /\ UNCHANGED <<obs, outfile, prev, runs>>

\* Stage 2, run_draft_generation, whatever the stage is.
WebDraftGeneration ==
  /\ Running("web", "draft")
  /\ \E t \in InitialTexts(BriefText), ok \in SaveOutcomes : Mutate(update_draft(mem, t), ok)
  /\ run' = [run EXCEPT !.pc = "draft_stage", !.brain_dump = BriefText]
  /\ obs' = [obs EXCEPT !.drafted = TRUE]
  /\ UNCHANGED <<outfile, prev, runs>>

WebDraftStage ==
  /\ Running("web", "draft_stage")
  /\ \E ok \in SaveOutcomes : Mutate(update_stage(mem, "draft_written"), ok)
  /\ Goto("review")
  /\ UNCHANGED <<obs, outfile, prev, runs>>

\* run_review, first and final pass: both reviewers, then set_source_review.
WebReview ==
  /\ run.kind = "web"
  /\ run.pc \in {"review", "review_again"}
  /\ \E sr \in SourceReviews, yr \in StyleReviews, ok \in SaveOutcomes :
       /\ Mutate(set_source_review(mem, sr), ok)
       /\ run' = [run EXCEPT !.pc = IF run.pc = "review" THEN "review_style" ELSE "review_again_style",
                             !.review = [source_review |-> sr, style_review |-> yr]]
  /\ UNCHANGED <<obs, outfile, prev, runs>>

\* run_review, continued: set_style_review; after the first pass the test
\* whether to revise.
WebReviewStyle ==
  /\ run.kind = "web"
  /\ run.pc \in {"review_style", "review_again_style"}
  /\ \E ok \in SaveOutcomes : Mutate(set_style_review(mem, run.review.style_review), ok)
  /\ Goto(IF run.pc = "review_again_style" THEN "done"
          ELSE IF needs_revision(run.review) THEN "increment" ELSE "done")
  /\ UNCHANGED <<obs, outfile, prev, runs>>

\* Stage 4: increment_iteration before the automatic revision; a rejected
\* increment reports an error and returns.
WebIncrement ==
  /\ Running("web", "increment")
  /\ \/ /\ IncrementAccepted(mem)
        /\ \E ok \in SaveOutcomes : Mutate(IncrementedState(mem), ok)
        /\ run' = [run EXCEPT !.pc = "revise",
                              !.feedback = [action |-> "revise",
                                            source_issues |-> run.review.source_review.issues,
                                            style_issues |-> run.review.style_review.issues,
                                            user_requests |-> <<>>]]
        /\ obs' = [obs EXCEPT !.reqs = {}]
        /\ UNCHANGED <<outfile, prev, runs>>
     \/ /\ ~IncrementAccepted(mem)
        /\ mem' = IncrementedState(mem)
        /\ Goto("failed")
        /\ obs' = [obs EXCEPT !.rejected = TRUE, !.reported = TRUE]
        /\ UNCHANGED <<disk, faults, outfile, prev, runs>>

WebRevision ==
  /\ Running("web", "revise")
  /\ \E t \in RevisionTexts(mem.current_draft, run.brain_dump), ok \in SaveOutcomes :
       /\ Mutate(update_draft(mem, t), ok)
       /\ obs' = [obs EXCEPT !.reqs = @ \cup {RevisionRequest(run.feedback)}, !.autoRevised = TRUE, !.autoText = t]
  /\ Goto("revise_stage")
  /\ UNCHANGED <<outfile, prev, runs>>

WebRevisionStage ==
  /\ Running("web", "revise_stage")
  /\ \E ok \in SaveOutcomes : Mutate(update_stage(mem, "revision_complete"), ok)
  /\ Goto("review_again")
  /\ UNCHANGED <<obs, outfile, prev, runs>>


\* A request handler opens its own manager on the session directory.
RequestAllowed == run.kind \in {"none", "web"}

\* PUT /sessions/{id}/draft: update_draft on the loaded record.
PutDraft ==
  /\ RequestAllowed
  /\ \E t \in EditedTexts, ok \in SaveOutcomes :
       /\ disk' = Save(update_draft(disk, t), disk, ok)
       /\ faults' = IF ok THEN faults ELSE faults - 1
       /\ obs' = IF run.kind = "web" /\ ok THEN [obs EXCEPT !.autosave = t] ELSE obs
  /\ mem' = IF run.kind = "none" THEN disk' ELSE mem
  /\ UNCHANGED <<run, outfile, prev, runs>>

\* POST /sessions/{id}/approve: the draft is written out, then
\* update_stage("complete").
ApproveDraft ==
  /\ RequestAllowed
  /\ outfile' = disk.current_draft
  /\ \E ok \in SaveOutcomes :
       /\ disk' = Save(update_stage(disk, "complete"), disk, ok)
       /\ faults' = IF ok THEN faults ELSE faults - 1
  /\ mem' = IF run.kind = "none" THEN disk' ELSE mem
  /\ UNCHANGED <<run, obs, prev, runs>>

----------------------------------------------------------------------------
(* Spec: one session directory *)

\* A file: absent, or the first len pieces of record number rec.
Absent == [exists |-> FALSE, rec |-> 0, len |-> 0]

Complete(n) == [exists |-> TRUE, rec |-> n, len |-> WriteChunks]

IsComplete(f) == f.exists /\ f.len = WriteChunks

\* SessionManager.state_file
StateFile == "state.json"

\* Mutant: the data is written straight to the target path.
TempPathInPlace(p) == p

\* write_json: output_path.with_suffix(output_path.suffix + ".tmp")
TempPath(p) == p \o ".tmp"

Paths == {StateFile, TempPath(StateFile)}

NoFiles == [p \in Paths |-> Absent]

NoWrite ==
  [pc |-> "idle", n |-> 0, attempt |-> 0, retry_delay |-> RetryDelay, attempts |-> 0,
   eioFailures |-> 0, slept |-> <<>>, eio |-> FALSE, raised |-> FALSE, outcome |-> "none",
   before |-> Absent, loaded |-> Absent]

\* No queue registered, no queue made, no task started, nobody connected.
NoStream ==
  [registered |-> 0, made |-> 0, complete |-> {}, tasks |-> {},
   bound |-> [t \in 1..MaxConnections |-> 0],
   put |-> [q \in 1..MaxConnections |-> 0],
   got |-> [q \in 1..MaxConnections |-> 0],
   conns |-> [c \in 1..MaxConnections |->
                [state |-> "new", q |-> 0, pc |-> "wait"]]]

\* No illustration run.
NoImages ==
  [mode |-> "none", pc |-> "idle", n |-> 0,
   line |-> [i \in 1..MaxPoints |-> 0],
   gen |-> [i \in 1..MaxPoints |-> "none"],
   lines |-> <<>>]

\* No review made.
NoCalc ==
  [pc |-> "idle", source |-> <<>>, answered |-> FALSE, parsed |-> <<>>,
   failure |-> "none", style |-> <<>>, via |-> "none", result |-> FALSE]

\* The latest change of the draft: none yet.
NoWriterCall == [kind |-> "none", failed |-> FALSE, before |-> NoText]

\* No draft file: draft_iter_<i>.md does not exist.
NoDraftFile == [exists |-> FALSE, text |-> NoText]

\* A session without a draft.
NoGen ==
  [kind |-> "none", pc |-> "idle", brain_dump |-> NoText,
   current_draft |-> NoText, iteration |-> 0, passes |-> 0,
   files |-> [i \in 0..MaxDraftIterations |-> NoDraftFile],
   last |-> NoWriterCall]

\* No execution: no subprocess, nothing streamed, nothing returned.
NoProc ==
  [pc |-> "idle", spawned |-> FALSE, alive |-> FALSE, returncode |-> "none",
   ignores_term |-> FALSE, stdout |-> FALSE, stderr |-> FALSE, messages |-> 0,
   clock |-> 0, grace |-> 0, signals |-> <<>>, timed_out |-> FALSE,
   exited_in |-> "none", result |-> "none"]

\* state.json does not exist.
NoStateFile == [exists |-> FALSE, json |-> FALSE,
                rec |-> [stage |-> "initialized", iteration |-> 0, extra |-> FALSE]]

\* No SessionManager yet.
NoOpen ==
  [pc |-> "idle", file |-> NoStateFile, atOpen |-> NoStateFile, attempt |-> 0,
   result |-> "none", cause |-> "none", state |-> NoStateFile.rec]

\* SessionState(): stage, iteration and the two logs, as first saved.
FreshLogState ==
  [stage |-> "initialized", iteration |-> 0, user_feedback |-> <<>>,
   iteration_history |-> <<>>]

\* The latest SessionManager call: none yet.
NoLogCall == [op |-> "none", stage |-> "", historyBefore |-> 0]

\* strftime("%Y%m%d_%H%M%S") of an instant: the instant cut to its second.
strftime(t) == t \div TicksPerSecond

Stamps == 0..strftime(MaxTicks)

\* A directory that does not exist; session_id is that of its state.json,
\* -1 without the file.
NoDir == [exists |-> FALSE, session_id |-> -1]

\* No session created yet.
NoCreated ==
  [clock |-> 0, pc |-> "idle", session_dir |-> 0, session_id |-> 0,
   dirs |-> [d \in Stamps |-> NoDir], sessions |-> <<>>, reopened |-> {}]

\* A session nobody runs.
NoLogs ==
  [kind |-> "none", pc |-> "idle", state |-> FreshLogState,
   saved |-> FreshLogState, collected |-> <<>>, last |-> NoLogCall]

Init ==
  /\ disk = FreshState
  /\ mem = FreshState
  /\ run = Idle
  /\ obs = NoObs
  /\ prev = NoPrev
  /\ runs = 0
  /\ faults = 0
  /\ outfile = NoText
  /\ calls = <<>>
  /\ fs = NoFiles
  /\ w = NoWrite
  /\ stream = NoStream
  /\ img = NoImages
  /\ calc = NoCalc
  /\ gen = NoGen
  /\ proc = NoProc
  /\ opened = NoOpen
  /\ logs = NoLogs
  /\ created = NoCreated

Next ==
  \/ StartCli /\ UNCHANGED otherVars
  \/ CliStyleExtraction /\ UNCHANGED otherVars
  \/ CliStyleStage /\ UNCHANGED otherVars
  \/ CliDraftGeneration /\ UNCHANGED otherVars
  \/ CliDraftStage /\ UNCHANGED otherVars
  \/ CliLoop /\ UNCHANGED otherVars
  \/ CliReview /\ UNCHANGED otherVars
  \/ CliReviewStyle /\ UNCHANGED otherVars
  \/ CliFeedback /\ UNCHANGED otherVars
  \/ CliRevision /\ UNCHANGED otherVars
  \/ CliRevisionStage /\ UNCHANGED otherVars
  \/ CliFinalOutput /\ UNCHANGED otherVars
  \/ CliIllustration /\ UNCHANGED otherVars
  \/ CliComplete /\ UNCHANGED otherVars
  \/ StartLegacy /\ UNCHANGED otherVars
  \/ LegacyStyle /\ UNCHANGED otherVars
  \/ LegacyExtract /\ UNCHANGED otherVars
  \/ LegacyStyleStage /\ UNCHANGED otherVars
  \/ LegacyContent /\ UNCHANGED otherVars
  \/ LegacyWrite /\ UNCHANGED otherVars
  \/ LegacyDraftStage /\ UNCHANGED otherVars
  \/ LegacyLoop /\ UNCHANGED otherVars
  \/ LegacyReviewSources /\ UNCHANGED otherVars
  \/ LegacyReviewStyle /\ UNCHANGED otherVars
  \/ LegacyRevise /\ UNCHANGED otherVars
  \/ LegacyReviseStage /\ UNCHANGED otherVars
  \/ LegacyFeedback /\ UNCHANGED otherVars
  \/ LegacyApply /\ UNCHANGED otherVars
  \/ LegacyApplyDraft /\ UNCHANGED otherVars
  \/ LegacyApplyStage /\ UNCHANGED otherVars
  \/ LegacyFinalOutput /\ UNCHANGED otherVars
  \/ LegacyIllustration /\ UNCHANGED otherVars
  \/ LegacyComplete /\ UNCHANGED otherVars
  \/ Crash /\ UNCHANGED otherVars
  \/ Exit /\ UNCHANGED otherVars

\* The command-line front ends (cli/main.py and main.py) on one session directory.
Spec == Init /\ [][Next]_vars

\* One run of a command-line front end on a new session, from its start to
\* its end: no crash, and every step that can be taken is taken.
NextLoop ==
  \/ StartCli /\ UNCHANGED otherVars
  \/ CliStyleExtraction /\ UNCHANGED otherVars
  \/ CliStyleStage /\ UNCHANGED otherVars
  \/ CliDraftGeneration /\ UNCHANGED otherVars
  \/ CliDraftStage /\ UNCHANGED otherVars
  \/ CliLoop /\ UNCHANGED otherVars
  \/ CliReview /\ UNCHANGED otherVars
  \/ CliReviewStyle /\ UNCHANGED otherVars
  \/ CliFeedback /\ UNCHANGED otherVars
  \/ CliRevision /\ UNCHANGED otherVars
  \/ CliRevisionStage /\ UNCHANGED otherVars
  \/ CliFinalOutput /\ UNCHANGED otherVars
  \/ CliIllustration /\ UNCHANGED otherVars
  \/ CliComplete /\ UNCHANGED otherVars
  \/ StartLegacy /\ UNCHANGED otherVars
  \/ LegacyStyle /\ UNCHANGED otherVars
  \/ LegacyExtract /\ UNCHANGED otherVars
  \/ LegacyStyleStage /\ UNCHANGED otherVars
  \/ LegacyContent /\ UNCHANGED otherVars
  \/ LegacyWrite /\ UNCHANGED otherVars
  \/ LegacyDraftStage /\ UNCHANGED otherVars
  \/ LegacyLoop /\ UNCHANGED otherVars
  \/ LegacyReviewSources /\ UNCHANGED otherVars
  \/ LegacyReviewStyle /\ UNCHANGED otherVars
  \/ LegacyRevise /\ UNCHANGED otherVars
  \/ LegacyReviseStage /\ UNCHANGED otherVars
  \/ LegacyFeedback /\ UNCHANGED otherVars
  \/ LegacyApply /\ UNCHANGED otherVars
  \/ LegacyApplyDraft /\ UNCHANGED otherVars
  \/ LegacyApplyStage /\ UNCHANGED otherVars
  \/ LegacyFinalOutput /\ UNCHANGED otherVars
  \/ LegacyIllustration /\ UNCHANGED otherVars
  \/ LegacyComplete /\ UNCHANGED otherVars

SpecLoop == Init /\ [][NextLoop]_vars /\ WF_vars(NextLoop)

NextWeb ==
  \/ StartWeb /\ UNCHANGED otherVars
  \/ WebStyleExtraction /\ UNCHANGED otherVars
  \/ WebStyleStage /\ UNCHANGED otherVars
  \/ WebDraftGeneration /\ UNCHANGED otherVars
  \/ WebDraftStage /\ UNCHANGED otherVars
  \/ WebReview /\ UNCHANGED otherVars
  \/ WebReviewStyle /\ UNCHANGED otherVars
  \/ WebIncrement /\ UNCHANGED otherVars
  \/ WebRevision /\ UNCHANGED otherVars
  \/ WebRevisionStage /\ UNCHANGED otherVars
  \/ PutDraft /\ UNCHANGED otherVars
  \/ ApproveDraft /\ UNCHANGED otherVars
  \/ Crash /\ UNCHANGED otherVars
  \/ Exit /\ UNCHANGED otherVars

\* A web request names its session by directory: one created by GET /new
\* (default max_iterations) or by the legacy main(), which saves the option.
InitWeb ==
  /\ \E mi \in (1..MaxIterations) \cup {DefaultMaxIterations} :
       /\ disk = [FreshState EXCEPT !.max_iterations = mi]
       /\ mem = disk
  /\ run = Idle
  /\ obs = NoObs
  /\ prev = NoPrev
  /\ runs = 0
  /\ faults = 0
  /\ outfile = NoText
  /\ calls = <<>>
  /\ fs = NoFiles
  /\ w = NoWrite
  /\ stream = NoStream
  /\ img = NoImages
  /\ calc = NoCalc
  /\ gen = NoGen
  /\ proc = NoProc
  /\ opened = NoOpen
  /\ logs = NoLogs
  /\ created = NoCreated

\* The web front end (web/routes) on one session directory.
SpecWeb == InitWeb /\ [][NextWeb]_vars

----------------------------------------------------------------------------
(* SpecSession: the SessionManager operations, called in any order *)

SessionStages == {"draft_written", "complete"}

CallAllowed == Len(calls) < MaxCalls

\* The log of calls: the result, the in-memory iteration after the call and
\* whether the call changed the record on disk.
Called(op, ok) ==
  calls' = Append(calls, [op |-> op, ok |-> ok, iteration |-> mem'.iteration, wrote |-> (disk' # disk),
                          idBefore |-> mem.session_id])

\* increment_iteration(): True after a save, False without one.
SessIncrement ==
  /\ CallAllowed
  /\ \/ /\ IncrementAccepted(mem)
        /\ \E ok \in SaveOutcomes :
             /\ Mutate(IncrementedState(mem), ok)
             /\ Called("increment_iteration", TRUE)
     \/ /\ ~IncrementAccepted(mem)
        /\ mem' = IncrementedState(mem)
        /\ UNCHANGED <<disk, faults>>
        /\ Called("increment_iteration", FALSE)
  /\ UNCHANGED <<orchVars, fs, w, stream, img, calc, gen, proc, opened, logs, created>>

SessUpdateStage ==
  /\ CallAllowed
  /\ \E s \in SessionStages, ok \in SaveOutcomes :
       /\ Mutate(update_stage(mem, s), ok)
       /\ Called("update_stage", TRUE)
  /\ UNCHANGED <<orchVars, fs, w, stream, img, calc, gen, proc, opened, logs, created>>

SessUpdateDraft ==
  /\ CallAllowed
  /\ \E t \in DraftTexts, ok \in SaveOutcomes :
       /\ Mutate(update_draft(mem, t), ok)
       /\ Called("update_draft", TRUE)
  /\ UNCHANGED <<orchVars, fs, w, stream, img, calc, gen, proc, opened, logs, created>>

SessSetStyleProfile ==
  /\ CallAllowed
  /\ \E ok \in SaveOutcomes :
       /\ Mutate(set_style_profile(mem), ok)
       /\ Called("set_style_profile", TRUE)
  /\ UNCHANGED <<orchVars, fs, w, stream, img, calc, gen, proc, opened, logs, created>>

\* reset(): a fresh state, then save().
SessReset ==
  /\ CallAllowed
  /\ \E m \in ResetStates(mem), ok \in SaveOutcomes :
       /\ Mutate(m, ok)
       /\ Called("reset", TRUE)
  /\ UNCHANGED <<orchVars, fs, w, stream, img, calc, gen, proc, opened, logs, created>>

\* SessionManager(session_dir) on the same directory: the record is loaded.
SessReopen ==
  /\ CallAllowed
  /\ mem' = LoadState(StateDict(disk))
  /\ UNCHANGED <<disk, faults, orchVars, fs, w, stream, img, calc, gen, proc, opened, logs, created>>
  /\ Called("open", TRUE)

\* A session created with max_iterations set, iteration 0.
InitSession ==
  /\ \E mi \in 1..MaxIterations :
       /\ disk = [FreshState EXCEPT !.max_iterations = mi]
       /\ mem = disk
  /\ run = Idle
  /\ obs = NoObs
  /\ prev = NoPrev
  /\ runs = 0
  /\ faults = MaxFaults
  /\ outfile = NoText
  /\ calls = <<>>
  /\ fs = NoFiles
  /\ w = NoWrite
  /\ stream = NoStream
  /\ img = NoImages
  /\ calc = NoCalc
  /\ gen = NoGen
  /\ proc = NoProc
  /\ opened = NoOpen
  /\ logs = NoLogs
  /\ created = NoCreated

NextSession ==
  \/ SessIncrement
  \/ SessUpdateStage
  \/ SessUpdateDraft
  \/ SessSetStyleProfile
  \/ SessReset
  \/ SessReopen

SpecSession == InitSession /\ [][NextSession]_vars

----------------------------------------------------------------------------
(* SpecWrite: one SessionManager on a session directory, its saves step by
   step through write_json *)

\* A mutator (update_stage, ...) changes the state and calls save(), which
\* calls write_json(state_dict, state_file): temp path, retry_delay, attempt 0.
SaveCall ==
  /\ w.pc \in {"idle", "done", "loaded"}
  /\ w.n < MaxSaves
  /\ w' = [NoWrite EXCEPT !.pc = "open", !.n = w.n + 1, !.before = fs[StateFile]]
  /\ UNCHANGED fs

\* An OSError inside the try block: errno 5 (eio) or another one.
WriteFails ==
  \E eio \in BOOLEAN :
    /\ w' = [w EXCEPT !.pc = "except", !.eio = eio,
                      !.attempts = IF w.pc = "open" THEN @ + 1 ELSE @,
                      !.eioFailures = IF eio THEN @ + 1 ELSE @]
    /\ UNCHANGED fs

\* open(temp_path, "w"): the temp file is created or truncated.
WriteOpen ==
  /\ w.pc = "open"
  /\ \/ /\ fs' = [fs EXCEPT ![TempPath(StateFile)] = [exists |-> TRUE, rec |-> w.n, len |-> 0]]
        /\ w' = [w EXCEPT !.pc = "dump", !.attempts = @ + 1]
     \/ WriteFails

\* json.dump(data, f): one more piece reaches the temp file.
WriteDump ==
  /\ w.pc = "dump"
  /\ \/ /\ fs' = [fs EXCEPT ![TempPath(StateFile)].len = @ + 1]
        /\ w' = [w EXCEPT !.pc = IF fs[TempPath(StateFile)].len + 1 = WriteChunks THEN "flush" ELSE "dump"]
     \/ WriteFails

\* f.flush() and the end of the with block.
WriteFlush ==
  /\ w.pc = "flush"
  /\ \/ /\ w' = [w EXCEPT !.pc = "replace"]
        /\ UNCHANGED fs
     \/ WriteFails

\* temp_path.replace(output_path), then return.
WriteReplace ==
  /\ w.pc = "replace"
  /\ \/ /\ fs' = [p \in Paths |-> IF p = StateFile THEN fs[TempPath(StateFile)] ELSE Absent]
        /\ w' = [w EXCEPT !.pc = "returned"]
     \/ WriteFails

\* except OSError: sleep and go round again on errno 5 before the last
\* attempt; otherwise unlink the temp file and raise.
WriteExcept ==
  /\ w.pc = "except"
  /\ \/ /\ w.eio
        /\ w.attempt < MaxRetries - 1
        /\ w' = [w EXCEPT !.pc = "open", !.attempt = @ + 1,
                          !.slept = Append(@, w.retry_delay), !.retry_delay = @ * 2]
        /\ UNCHANGED fs
     \/ /\ ~(w.eio /\ w.attempt < MaxRetries - 1)
        /\ fs' = [p \in Paths |-> IF p = TempPath(StateFile) THEN Absent ELSE fs[p]]
        /\ w' = [w EXCEPT !.pc = "raised", !.raised = TRUE]

\* save(): write_json returned, or raised and the except clause logged the
\* error; either way save() and the mutator return normally.
SaveReturn ==
  /\ w.pc \in {"returned", "raised"}
  /\ w' = [w EXCEPT !.pc = "done", !.outcome = "returned"]
  /\ UNCHANGED fs

\* The process is killed between two steps of the save.
WriteCrash ==
  /\ w.pc \in {"open", "dump", "flush", "replace", "except", "returned", "raised"}
  /\ w' = [w EXCEPT !.pc = "crashed"]
  /\ UNCHANGED fs

\* SessionManager(session_dir) in a new process: _load_state reads state.json.
Load ==
  /\ w.pc \in {"crashed", "done"}
  /\ w' = [w EXCEPT !.pc = "loaded", !.loaded = fs[StateFile]]
  /\ UNCHANGED fs

\* A session directory with a saved record, or a new one.
InitWrite ==
  /\ disk = FreshState
  /\ mem = FreshState
  /\ run = Idle
  /\ obs = NoObs
  /\ prev = NoPrev
  /\ runs = 0
  /\ faults = 0
  /\ outfile = NoText
  /\ calls = <<>>
  /\ \E f \in {Absent, Complete(0)} :
       /\ fs = [p \in Paths |-> IF p = StateFile THEN f ELSE Absent]
       /\ w = [NoWrite EXCEPT !.before = f]
  /\ stream = NoStream
  /\ img = NoImages
  /\ calc = NoCalc
  /\ gen = NoGen
  /\ proc = NoProc
  /\ opened = NoOpen
  /\ logs = NoLogs
  /\ created = NoCreated

writeRest == <<disk, mem, run, obs, prev, runs, faults, outfile, calls,
               stream, img, calc, gen, proc, opened, logs, created>>

NextWrite ==
  \/ SaveCall /\ UNCHANGED writeRest
  \/ WriteOpen /\ UNCHANGED writeRest
  \/ WriteDump /\ UNCHANGED writeRest
  \/ WriteFlush /\ UNCHANGED writeRest
  \/ WriteReplace /\ UNCHANGED writeRest
  \/ WriteExcept /\ UNCHANGED writeRest
  \/ SaveReturn /\ UNCHANGED writeRest
  \/ WriteCrash /\ UNCHANGED writeRest
  \/ Load /\ UNCHANGED writeRest

SpecWrite == InitWrite /\ [][NextWrite]_vars

----------------------------------------------------------------------------
(* Resume *)

\* C1: when a run crashed after stage = draft_written was persisted, a later
\* run over the same session does not invoke style extraction or initial
\* draft generation again.
C1_ResumeSkipsDraftedPhases ==
  (/\ run.kind # "none"
   /\ prev.result = "crashed"
   /\ obs.startStage \in {"draft_written", "revision_complete"})
    => (~obs.extracted /\ ~obs.drafted)

----------------------------------------------------------------------------
(* Iteration governor *)

\* The results of the increment_iteration calls made so far, in order.
RECURSIVE Increments(_)
Increments(cs) ==
  IF cs = <<>> THEN <<>>
  ELSE IF cs[1].op = "increment_iteration"
    THEN <<cs[1]>> \o Increments(Tail(cs))
    ELSE Increments(Tail(cs))

LastCall == calls[Len(calls)]

\* One manager from the start: the session was never opened again nor reset.
OneManager == \A i \in 1..Len(calls) : calls[i].op \notin {"open", "reset"}

C30_IncrementCountsEveryCall ==
  OneManager =>
    LET incs == Increments(calls) IN
    /\ mem.iteration = Len(incs)
    /\ \A k \in 1..Len(incs) : incs[k].ok <=> k <= mem.max_iterations

\* N + 1 calls were made: the N-th was accepted, the last one rejected, and
\* the in-memory iteration is N + 1.
C30_Witness ==
  /\ OneManager
  /\ mem.iteration = mem.max_iterations + 1
  /\ Len(Increments(calls)) = mem.max_iterations + 1
  /\ Increments(calls)[mem.max_iterations].ok
  /\ ~LastCall.ok
  /\ LastCall.op = "increment_iteration"

\* C3: at every point of an orchestrator run that started from a record
\* within its budget, the iteration held by the persisted record is at most
\* max_iterations; a rejected increment is never written by a later save.
C3_PersistedIterationBounded ==
  (run.kind # "none" /\ obs.startBounded) => disk.iteration <= mem.max_iterations

----------------------------------------------------------------------------
(* The state store *)

\* C4: at every step of a state write, a crash at any step included, the
\* final state file holds the complete record saved before or the complete
\* new record (or does not exist yet, in a new session); what a load reads
\* is never a partially written record.
C4_FinalFileNeverPartial ==
  /\ fs[StateFile] \in {w.before, Complete(w.n)}
  /\ ~fs[StateFile].exists \/ IsComplete(fs[StateFile])
  /\ w.pc = "loaded" => (~w.loaded.exists \/ IsComplete(w.loaded))

\* A crash in the middle of a write: the temp file is partial, the final
\* file still holds the record saved before, and the next manager loaded it.
C4_Witness ==
  /\ w.pc = "loaded"
  /\ fs[TempPath(StateFile)].exists
  /\ fs[TempPath(StateFile)].len > 0
  /\ fs[TempPath(StateFile)].len < WriteChunks
  /\ w.before.exists
  /\ w.loaded = w.before

\* C5: when every write attempt of a save fails with a transient I/O error,
\* exactly 3 attempts are made, with waits of 0.5 and 1.0 between them, and
\* the failure reaches the caller of the mutator; no mutator returns
\* normally while its change was not persisted.
C5_FailedSaveSurfaces ==
  w.pc = "done" =>
    /\ (w.raised /\ w.eioFailures = w.attempts) =>
         (/\ w.attempts = MaxRetries
          /\ w.slept = <<RetryDelay, 2 * RetryDelay>>
          /\ w.outcome = "raised")
    /\ w.outcome = "returned" => fs[StateFile] = Complete(w.n)

C15_ResetGivesNewSession ==
  (calls # <<>> /\ LastCall.op = "reset") =>
    (/\ mem.stage = "initialized"
     /\ mem.iteration = 0
     /\ mem.current_draft = NoText
     /\ disk = mem
     /\ mem.session_id # LastCall.idBefore)

\* C16: SessionState changes only through the SessionManager operations, and
\* between the operations of a run the persisted record equals the in-memory
\* state in every field.
C16_PersistedEqualsMemory ==
  run.kind # "none" => disk = mem

----------------------------------------------------------------------------
(* Stages *)

\* C6: after a run in which a stage operation raised, the next run on the
\* session executes the step that was in flight again.
C6_FailedStepIsRetried ==
  (/\ run.kind # "none"
   /\ run.pc = "done"
   /\ prev.result = "failed"
   /\ prev.inflight = "extract")
    => obs.extracted

\* C7: stage becomes complete only by a step from draft_written or
\* revision_complete, and never for a session whose current_draft is empty.
C7_CompleteOnlyAfterDraft ==
  [][(disk'.stage = "complete" /\ disk.stage # "complete")
       => (/\ disk.stage \in {"draft_written", "revision_complete"}
           /\ disk'.current_draft # NoText)]_vars

\* C8: stage only takes values of the closed set and never moves from a
\* later value of the order to an earlier one.
C8_StageClosedAndMonotonic ==
  [][/\ disk'.stage \in ClosedStages
     /\ StageRank(disk'.stage) >= StageRank(disk.stage)]_vars

----------------------------------------------------------------------------
(* The review loop *)

IssueCount(m) == Len(m.source_review.issues) + Len(m.style_review.issues)

\* C9: with max_iterations = 1, a single review pass that reports one issue
\* and approve as the only action of the user, a run on a new session ends
\* with stage = complete, iteration = 1 and the text of the automatic
\* revision as current_draft and as final output.
C9_ApprovedDraftIsAutoRevision ==
  (/\ run.kind # "none"
   /\ run.pc = "done"
   /\ obs.startStage = "initialized"
   /\ mem.max_iterations = 1
   /\ IssueCount(mem) = 1
   /\ obs.acts = {"approve"})
    => (/\ mem.stage = "complete"
        /\ mem.iteration = 1
        /\ obs.autoRevised
        /\ mem.current_draft = obs.autoText
        /\ outfile = obs.autoText)

\* The review of the iteration that has just ended with a skip.
AfterSkip == run.kind # "none" /\ run.pc = "loop" /\ obs.skipped

ReviewerIssuesOnly(m) ==
  [source_issues |-> m.source_review.issues,
   style_issues |-> m.style_review.issues,
   user_requests |-> <<>>]

C11_ApproveEndsLoop ==
  (run.kind # "none" /\ "approve" \in obs.acts) =>
    \/ run.pc \in {"final", "illustrate", "complete", "done"}
    \/ run.pc = "failed" /\ obs.illustrator = "failed"

\* A run that ended after an approval given while both reviews asked for a
\* revision.
C11_Witness ==
  /\ run.pc = "done"
  /\ "approve" \in obs.acts
  /\ mem.source_review.needs_revision
  /\ mem.style_review.issues # NoIssues

\* C12: when increment_iteration is rejected, the run reports no error, uses
\* the current draft as final output and finishes successfully with
\* stage = complete.
C12_BudgetEndIsNormal ==
  (run.kind # "none" /\ obs.rejected /\ run.pc \in {"done", "failed"})
    => (/\ run.pc = "done"
        /\ ~obs.reported
        /\ mem.stage = "complete"
        /\ outfile = mem.current_draft)

\* C13: no text is generated and then discarded because increment_iteration
\* was rejected.
C13_NoGenerationBeforeRejectedIncrement ==
  obs.discarded = NoText

\* C32: in a run of a command-line front end the review-revise loop makes
\* at most max_iterations review passes, and a run that is at the top of
\* the loop reaches its final-output step.
C32_LoopTerminates ==
  /\ [](run.kind # "none" => obs.reviews <= mem.max_iterations)
  /\ (run.pc = "loop") ~> (run.pc = "final")

\* The loop ended by the budget: max_iterations review passes were made, the
\* next increment was rejected, and the run is at its final-output step.
C32_Witness ==
  /\ run.pc = "final"
  /\ obs.rejected
  /\ obs.reviews = mem.max_iterations

\* C34: every review and every revision of BlogCreatorWorkflow is called
\* with the brief (run.brain_dump is workflow.brain_dump, which is stored
\* together with additional_instructions), also in a resumed run that
\* skips the draft generation.
C34_ReviewsGetTheBrief ==
  (run.kind = "cli" /\ run.pc \in {"review_style", "revise_stage"})
    => run.brain_dump = BriefText

\* C35: a run of the CLI workflow never runs the style extraction when a
\* style profile is already persisted, nor the initial draft generation
\* when a draft is already persisted, whatever point an earlier run crashed
\* at.
C35_NoExpensiveStepTwice ==
  [][run.kind = "cli" =>
       /\ (~obs.extracted /\ obs'.extracted) => ~disk.style_profile
       /\ (~obs.drafted /\ obs'.drafted) => disk.current_draft = NoText]_vars

\* C36: a draft saved by the auto-save while the workflow task of the
\* session is running (obs.autosave) stays the persisted draft for the
\* rest of the task, and the auto-save itself changes no persisted field
\* but the draft.
C36_AutoSaveKept ==
  [][(run.kind = "web" /\ run'.kind = "web") =>
       /\ obs'.autosave # NoText => disk'.current_draft = obs'.autosave
       /\ (obs'.autosave # obs.autosave) =>
            disk' = [disk EXCEPT !.current_draft = obs'.autosave]]_vars

\* C25: a run that resumes a session works with, and leaves on disk, the
\* max_iterations value the session record held when the run started.
C25_MaxIterationsKept ==
  (run.kind # "none" /\ runs >= 2) =>
    /\ mem.max_iterations = obs.startMax
    /\ disk.max_iterations = obs.startMax

\* C28: the illustrator is invoked only when stage = complete is already
\* persisted, and when it fails the persisted stage, current_draft and
\* output_path and the written final output are as they were before it was
\* invoked.
C28_IllustratorAfterComplete ==
  [][(obs.illustrator = "none" /\ obs'.illustrator # "none") =>
       /\ disk.stage = "complete"
       /\ obs'.illustrator = "failed" =>
            /\ disk'.stage = disk.stage
            /\ disk'.current_draft = disk.current_draft
            /\ disk'.output_path = disk.output_path
            /\ outfile' = outfile]_vars



(***************************************************************************)
(* The progress stream of one session (web/routes/progress.py).            *)
(* Queues are numbered in the order they are made, and a run_workflow task *)
(* has the number of the queue it was created with.  stream.registered is  *)
(* progress_queues[session_id] (0: no entry), stream.complete the queues   *)
(* whose complete flag is set, stream.tasks the run_workflow tasks in      *)
(* flight, stream.bound the queue each task read on its first step (0: not *)
(* read yet), stream.put and stream.got the messages put on and taken from *)
(* each queue, stream.conns the event generators by connection.            *)
(***************************************************************************)

\* The finally of event_generator: the session's entry is deleted,
\* whichever queue it holds.  The connection ends as "completed" after the
\* completion event, as "closed" when the client went away.
StreamCleanup(st, c, end) ==
  [st EXCEPT !.registered = 0, !.conns[c].state = end]

\* The test of the generator's loop, taken without suspension after the
\* connection and after every yield: with queue.complete set the
\* completion event is sent and the generator ends, else it waits in
\* queue.get().
StreamLoop(st, c) ==
  IF st.conns[c].q \in st.complete
    THEN StreamCleanup(st, c, "completed")
    ELSE [st EXCEPT !.conns[c].pc = "wait"]

\* event_generator up to its first suspension: the entry is made, and a
\* run_workflow task created, only when the session has no entry; then the
\* loop is entered.  Connections are numbered in the order they are made.
StreamConnect(c) ==
  /\ stream.conns[c].state = "new"
  /\ IF c = 1 THEN TRUE ELSE stream.conns[c - 1].state # "new"
  /\ LET fresh == stream.registered = 0
         q == IF fresh THEN stream.made + 1 ELSE stream.registered
     IN stream' = StreamLoop([stream EXCEPT
                                !.made = IF fresh THEN q ELSE @,
                                !.registered = q,
                                !.tasks = IF fresh THEN @ \cup {q} ELSE @,
                                !.conns[c] = [@ EXCEPT !.state = "open", !.q = q]], c)

\* The client goes away while the generator is suspended.  The
\* cancellation reaches the generator after the first step of a task that
\* was created before the connection's first suspension.
StreamDisconnect(c) ==
  /\ stream.conns[c].state = "open"
  /\ ~(stream.conns[c].q \in stream.tasks /\ stream.bound[stream.conns[c].q] = 0)
  /\ stream' = StreamCleanup(stream, c, "closed")

\* queue.get() returns the next message and the generator yields it.
StreamGet(c) ==
  /\ stream.conns[c].state = "open"
  /\ stream.conns[c].pc = "wait"
  /\ LET q == stream.conns[c].q
     IN /\ stream.got[q] < stream.put[q]
        /\ stream' = [stream EXCEPT !.got[q] = @ + 1, !.conns[c].pc = "yield"]

\* No message within the timeout: the generator yields a ping.  The timeout
\* is longer than the wait of a new task for its first step.
StreamPing(c) ==
  /\ stream.conns[c].state = "open"
  /\ stream.conns[c].pc = "wait"
  /\ ~(stream.conns[c].q \in stream.tasks /\ stream.bound[stream.conns[c].q] = 0)
  /\ stream.got[stream.conns[c].q] = stream.put[stream.conns[c].q]
  /\ stream' = [stream EXCEPT !.conns[c].pc = "yield"]

\* The event was sent and the generator resumes at the test of its loop.
StreamResume(c) ==
  /\ stream.conns[c].state = "open"
  /\ stream.conns[c].pc = "yield"
  /\ stream' = StreamLoop(stream, c)

\* The first step of run_workflow: queue = progress_queues[session_id],
\* outside its try.  Without an entry the task ends with KeyError.
WorkflowStart(t) ==
  /\ t \in stream.tasks
  /\ stream.bound[t] = 0
  /\ IF stream.registered = 0
       THEN stream' = [stream EXCEPT !.tasks = @ \ {t}]
       ELSE stream' = [stream EXCEPT !.bound[t] = stream.registered]

\* run_workflow puts a progress message or an error message on its queue.
WorkflowPut(t) ==
  /\ t \in stream.tasks
  /\ stream.bound[t] # 0
  /\ stream.put[stream.bound[t]] < MaxMessages
  /\ stream' = [stream EXCEPT !.put[stream.bound[t]] = @ + 1]

\* run_workflow reaches its finally: queue.mark_complete().
WorkflowFinish(t) ==
  /\ t \in stream.tasks
  /\ stream.bound[t] # 0
  /\ stream' = [stream EXCEPT !.tasks = @ \ {t}, !.complete = @ \cup {stream.bound[t]}]

streamRest == <<disk, mem, run, obs, prev, runs, faults, outfile, calls,
                fs, w, img, calc, gen, proc, opened, logs, created>>

NextStream ==
  \/ (\E c \in 1..MaxConnections : StreamConnect(c)) /\ UNCHANGED streamRest
  \/ (\E c \in 1..MaxConnections : StreamDisconnect(c)) /\ UNCHANGED streamRest
  \/ (\E c \in 1..MaxConnections : StreamGet(c)) /\ UNCHANGED streamRest
  \/ (\E c \in 1..MaxConnections : StreamPing(c)) /\ UNCHANGED streamRest
  \/ (\E c \in 1..MaxConnections : StreamResume(c)) /\ UNCHANGED streamRest
  \/ (\E t \in 1..MaxConnections : WorkflowStart(t)) /\ UNCHANGED streamRest
  \/ (\E t \in 1..MaxConnections : WorkflowPut(t)) /\ UNCHANGED streamRest
  \/ (\E t \in 1..MaxConnections : WorkflowFinish(t)) /\ UNCHANGED streamRest

SpecStream == Init /\ [][NextStream]_vars

\* The event loop runs every generator that can take a step and every
\* task that was created; clients and the workflow's own progress are not
\* scheduled by it.
StreamFairness ==
  /\ \A c \in 1..MaxConnections :
       WF_vars((StreamGet(c) \/ StreamPing(c) \/ StreamResume(c)) /\ UNCHANGED streamRest)
  /\ \A t \in 1..MaxConnections : WF_vars(WorkflowStart(t) /\ UNCHANGED streamRest)

SpecStreamLive == Init /\ [][NextStream]_vars /\ StreamFairness

\* C17: for one session, whatever the order of connections, disconnections
\* and reconnections to the progress stream, at most one run_workflow task
\* is in flight at any time.
C17_OneWorkflowInFlight == Cardinality(stream.tasks) <= 1

\* C37: when the generator of a queue's only consumer finds the queue
\* complete and sends the complete event, every message put on the queue
\* has been taken from it and sent.
C37_NoMessageDropped ==
  [][\A c \in 1..MaxConnections :
       (/\ stream.conns[c].state # "completed"
        /\ stream'.conns[c].state = "completed"
        /\ \A d \in 1..MaxConnections \ {c} : stream'.conns[d].q # stream'.conns[c].q)
         => stream'.got[stream'.conns[c].q] = stream'.put[stream'.conns[c].q]]_vars

\* C38: a connected stream whose run_workflow task has ended comes to its
\* end (with the complete event, unless the client goes away first).
C38_StreamEnds ==
  \A c \in 1..MaxConnections :
    (stream.conns[c].state = "open" /\ stream.conns[c].q \notin stream.tasks)
      ~> (stream.conns[c].state \in {"closed", "completed"})


(***************************************************************************)
(* One illustration run: the web route (web/routes/illustrations.py) and   *)
(* IllustrationPhase.run (illustration_phase.py).  Points and prompts are  *)
(* numbered 1..img.n in list order (index + 1, as in illustration-{i+1});  *)
(* img.line[i] is the line_number of point i, img.gen[i] the state of the  *)
(* generation for prompt i, img.lines the markdown split in lines.         *)
(***************************************************************************)

TextLine(k) == [kind |-> "text", src |-> 0, at |-> k]

\* The image markdown: the file of image src, written for point i.
ImageLine(src, i) == [kind |-> "img", src |-> src, at |-> i]

\* list.insert(k, x), k counted from 0.
ListInsert(s, k, x) ==
  LET c == IF k > Len(s) THEN Len(s) ELSE k
  IN SubSeq(s, 1, c) \o <<x>> \o SubSeq(s, c + 1, Len(s))

\* sorted(enumerate(points), key=line_number, reverse=True), as indexes.
RECURSIVE SortedPoints(_, _)
SortedPoints(line, S) ==
  IF S = {} THEN <<>>
  ELSE LET i == CHOOSE i \in S : \A j \in S : line[i] >= line[j]
       IN <<i>> \o SortedPoints(line, S \ {i})

Succeeded(i) == img.gen[i] = "ok"

\* The keys of image_results, in insertion order: gather returns the
\* results in the order of the prompts, and only successes are kept.
ImageKeys(n) == SelectSeq([i \in 1..n |-> i], Succeeded)

\* The insertion loop of run_illustration_generation: point i (counted
\* from 0 in the code) takes list(image_results.keys())[i].
RECURSIVE WebInsertAll(_, _, _, _)
WebInsertAll(order, line, keys, lines) ==
  IF order = <<>> THEN lines
  ELSE LET i == Head(order)
           next == IF i - 1 < Len(keys) /\ line[i] < Len(lines)
                   THEN ListInsert(lines, line[i] + 1, ImageLine(keys[i], i))
                   ELSE lines
       IN WebInsertAll(Tail(order), line, keys, next)

\* The loop of _update_markdown: point i takes images.get of
\* illustration-{i + 1}, and is skipped when there is none.
RECURSIVE PhaseInsertAll(_, _, _)
PhaseInsertAll(order, line, lines) ==
  IF order = <<>> THEN lines
  ELSE LET i == Head(order)
           next == IF Succeeded(i) /\ 0 <= line[i] /\ line[i] < Len(lines)
                   THEN ListInsert(lines, line[i], ImageLine(i, i))
                   ELSE lines
       IN PhaseInsertAll(Tail(order), line, next)

\* analyze and prompts: n points, on distinct lines of a draft of n + 1
\* lines, listed in any order, and one prompt for each.
ImagesBegin ==
  /\ img.pc = "idle"
  /\ \E mode \in {"web", "phase"}, n \in 1..MaxPoints :
       \E line \in [1..MaxPoints -> 0..(MaxPoints - 1)] :
         /\ \A i, j \in 1..n : i # j => line[i] # line[j]
         /\ \A i \in 1..n : line[i] < n
         /\ \A i \in (n + 1)..MaxPoints : line[i] = 0
         /\ img' = [mode |-> mode, pc |-> "prompts", n |-> n, line |-> line,
                    gen |-> [i \in 1..MaxPoints |->
                               IF i <= n THEN "pending" ELSE "none"],
                    lines |-> [k \in 1..(n + 1) |-> TextLine(k - 1)]]

\* asyncio.gather over generate_one_with_progress: all generations start.
WebGather ==
  /\ img.mode = "web" /\ img.pc = "prompts"
  /\ img' = [img EXCEPT !.pc = "generating",
                        !.gen = [i \in 1..MaxPoints |->
                                   IF i <= img.n THEN "running" ELSE "none"]]

\* One generation returns, with an image or None.
WebImageDone(i) ==
  /\ img.mode = "web" /\ img.pc = "generating"
  /\ img.gen[i] = "running"
  /\ \E r \in {"ok", "failed"} : img' = [img EXCEPT !.gen[i] = r]

\* gather has returned: the successes are collected and inserted.
WebInsert ==
  /\ img.mode = "web" /\ img.pc = "generating"
  /\ \A i \in 1..img.n : img.gen[i] # "running"
  /\ LET keys == ImageKeys(img.n)
     IN img' = [img EXCEPT
                  !.pc = "inserted",
                  !.lines = IF keys = <<>> THEN @
                            ELSE WebInsertAll(SortedPoints(img.line, 1..img.n),
                                              img.line, keys, @)]

\* _generate_images: the prompts one after the other.
PhaseGenerate ==
  /\ img.mode = "phase" /\ img.pc = "prompts"
  /\ \E i \in 1..img.n :
       /\ img.gen[i] = "pending"
       /\ \A j \in 1..(i - 1) : img.gen[j] # "pending"
       /\ \E r \in {"ok", "failed"} : img' = [img EXCEPT !.gen[i] = r]

\* run after _generate_images: nothing to do without images, else
\* _update_markdown.
PhaseUpdate ==
  /\ img.mode = "phase" /\ img.pc = "prompts"
  /\ \A i \in 1..img.n : img.gen[i] # "pending"
  /\ img' = [img EXCEPT
               !.pc = "inserted",
               !.lines = IF \A i \in 1..img.n : ~Succeeded(i) THEN @
                         ELSE PhaseInsertAll(SortedPoints(img.line, 1..img.n),
                                             img.line, @)]

imagesRest == <<disk, mem, run, obs, prev, runs, faults, outfile, calls,
                fs, w, stream, calc, gen, proc, opened, logs, created>>

NextImages ==
  \/ ImagesBegin /\ UNCHANGED imagesRest
  \/ WebGather /\ UNCHANGED imagesRest
  \/ (\E i \in 1..MaxPoints : WebImageDone(i)) /\ UNCHANGED imagesRest
  \/ WebInsert /\ UNCHANGED imagesRest
  \/ PhaseGenerate /\ UNCHANGED imagesRest
  \/ PhaseUpdate /\ UNCHANGED imagesRest

SpecImages == Init /\ [][NextImages]_vars

\* The images found next to the line of point i and written for it.
ImagesAt(i) ==
  {img.lines[p].src : p \in {p \in 1..Len(img.lines) :
     /\ img.lines[p].kind = "img"
     /\ img.lines[p].at = i
     /\ \E t \in {p - 1, p + 1} \cap (1..Len(img.lines)) :
          img.lines[t] = TextLine(img.line[i])}}

\* C18: whatever the order in which the image generations complete and
\* whichever of them fail, after insertion every point whose generation
\* succeeded holds the image made from its own prompt, and a point whose
\* generation failed holds no image.
C18_ImageAtItsOwnPoint ==
  img.pc = "inserted" =>
    \A i \in 1..img.n : ImagesAt(i) = IF Succeeded(i) THEN {i} ELSE {}


(***************************************************************************)
(* One review of a draft: the two reviewers (core/stages/review.py,        *)
(* content_phase.py) and the test whether a revision is needed.  A dict is *)
(* a function on the keys it holds; the answer of the style model is a     *)
(* dict of JSON values, with consistency_score in hundredths.              *)
(***************************************************************************)

\* The dict made of the keys S of a record.
Restrict(full, S) == [k \in S |-> full[k]]

\* SourceReviewer.review_sources: a dict that may hold an issue list and a
\* flag.
SourceDicts ==
  {Restrict(full, S) : full \in SourceReviews,
                       S \in SUBSET {"issues", "needs_revision"}}

Scores == {0, 69, 70, 100}

StyleKeys ==
  {"consistency_score", "matches_tone", "matches_voice", "issues",
   "needs_revision"}

\* What json.loads may give for the answer of the style model: every key
\* may be missing, and issues may be a text instead of a list.
ParsedAnswers ==
  {Restrict(full, S) :
     full \in [consistency_score : {JsonNumber(n) : n \in Scores},
               matches_tone : {JsonBool(b) : b \in BOOLEAN},
               matches_voice : {JsonBool(b) : b \in BOOLEAN},
               issues : {JsonArray(i) : i \in StyleIssueLists}
                          \cup {JsonString("none")},
               needs_revision : {JsonBool(b) : b \in BOOLEAN}],
     S \in SUBSET StyleKeys}

\* bool(x) of a JSON value.
PyBool(j) ==
  CASE j.t = "bool" -> j.v
    [] j.t = "null" -> FALSE
    [] j.t = "number" -> j.v # 0
    [] j.t = "string" -> j.v # ""
    [] j.t = "array" -> j.v # <<>>
    [] OTHER -> TRUE

\* float(x) of a JSON number, in hundredths.
PyFloat(j) == j.v

\* Mutant: the default review asks for a revision.
default_reviewRevise ==
  [consistency_score |-> DefaultScore, matches_tone |-> TRUE,
   matches_voice |-> TRUE, issues |-> NoIssues, needs_revision |-> TRUE]

\* _default_review: the passing review.
default_review ==
  [consistency_score |-> DefaultScore, matches_tone |-> TRUE,
   matches_voice |-> TRUE, issues |-> NoIssues, needs_revision |-> FALSE]

\* StyleReview(**review_data) accepts issues: list[str] only.
StyleReviewValid(review_data) == review_data.issues.t = "array"

\* Mutant: a score equal to the threshold forces the revision as well.
ScoreTooLowInclusive(score) == score <= ScoreThreshold

\* review_data["consistency_score"] < 0.7
ScoreTooLow(score) == score < ScoreThreshold

\* StyleReviewer.review_style from the parsed answer on: review_data, the
\* three rules that force needs_revision, then the StyleReview model; any
\* exception gives the default review.
review_style(parsed) ==
  LET review_data ==
        [consistency_score |->
           PyFloat(DictGet(parsed, "consistency_score", JsonNumber(DefaultScore))),
         matches_tone |-> PyBool(DictGet(parsed, "matches_tone", JsonBool(TRUE))),
         matches_voice |-> PyBool(DictGet(parsed, "matches_voice", JsonBool(TRUE))),
         issues |-> DictGet(parsed, "issues", JsonArray(NoIssues)),
         needs_revision |-> PyBool(DictGet(parsed, "needs_revision", JsonBool(FALSE)))]
      forced ==
        \/ ScoreTooLow(review_data.consistency_score)
        \/ PyBool(review_data.issues)
        \/ ~review_data.matches_tone
        \/ ~review_data.matches_voice
  IN IF ~StyleReviewValid(review_data) THEN default_review
     ELSE [review_data EXCEPT
             !.issues = [i \in DOMAIN @.v |-> @.v[i].v],
             !.needs_revision = @ \/ forced]

\* review_sources returns.
SourceReviewCall ==
  /\ calc.pc = "idle"
  /\ \E d \in SourceDicts : calc' = [calc EXCEPT !.pc = "source", !.source = d]

\* review_style on an answer that json.loads accepted.
StyleReviewCall ==
  /\ calc.pc = "source"
  /\ \E parsed \in ParsedAnswers :
       calc' = [calc EXCEPT !.pc = "reviewed", !.answered = TRUE,
                            !.parsed = parsed, !.style = review_style(parsed)]

\* How review_style may fail before it holds a parsed dict: the call to
\* the model raises, the response is empty, the text is not JSON, or the
\* JSON is not an object (parsed.get raises).
StyleFailures == {"call_raises", "no_content", "not_json", "not_object"}

\* review_style without an answer it can read: each failure ends in
\* return self._default_review().
StyleReviewFails ==
  /\ calc.pc = "source"
  /\ \E f \in StyleFailures :
       calc' = [calc EXCEPT !.pc = "reviewed", !.failure = f,
                            !.style = default_review]

Reviews == [source_review |-> calc.source, style_review |-> calc.style]

\* run_review returns ReviewResult(source_review, style_review), and the
\* caller reads its needs_revision.
ReviewResultRead ==
  /\ calc.pc = "reviewed"
  /\ calc' = [calc EXCEPT !.pc = "done", !.via = "ReviewResult",
                          !.result = needs_revision(Reviews)]

\* ContentPhase.run stores the two reviews and tests them.
ContentDecision ==
  /\ calc.pc = "reviewed"
  /\ calc' = [calc EXCEPT !.pc = "done", !.via = "ContentPhase",
                          !.result = ContentNeedsRevision(Reviews)]

reviewRest == <<disk, mem, run, obs, prev, runs, faults, outfile, calls,
                fs, w, stream, img, gen, proc, opened, logs, created>>

NextReview ==
  \/ SourceReviewCall /\ UNCHANGED reviewRest
  \/ StyleReviewCall /\ UNCHANGED reviewRest
  \/ StyleReviewFails /\ UNCHANGED reviewRest
  \/ ReviewResultRead /\ UNCHANGED reviewRest
  \/ ContentDecision /\ UNCHANGED reviewRest

SpecReview == Init /\ [][NextReview]_vars

\* The flag a reviewer set: true when the dict holds needs_revision = true.
FlagSet(d) == "needs_revision" \in DOMAIN d /\ d["needs_revision"] = TRUE

\* C19: for every pair of reviewer outputs, the aggregated needs_revision,
\* as ReviewResult.needs_revision gives it and as ContentPhase.run decides
\* it, is the flag of the source review OR the flag of the style review, a
\* missing flag counting as false.
C19_NeedsRevisionIsOr ==
  calc.pc = "done" => calc.result = (FlagSet(calc.source) \/ FlagSet(calc.style))

\* The source review holds no flag, the style review asks for a revision,
\* and ContentPhase.run decided to revise.
C19_Witness ==
  /\ calc.pc = "done"
  /\ calc.via = "ContentPhase"
  /\ "needs_revision" \notin DOMAIN calc.source
  /\ FlagSet(calc.style)
  /\ calc.result

\* The answer holds a score, and what it holds as issues is a list.
ScoredAnswer ==
  /\ calc.pc \in {"reviewed", "done"}
  /\ calc.answered
  /\ "consistency_score" \in DOMAIN calc.parsed
  /\ DictGet(calc.parsed, "issues", JsonArray(NoIssues)).t = "array"

\* C20: for a parsed style review with the score in hundredths, a score
\* below 0.70 makes the returned needs_revision true whatever the
\* reviewer's own flag; with a score of 0.70 or more, no issues, and tone
\* and voice matching, the returned needs_revision is the reviewer's own
\* flag.
C20_ScoreThreshold ==
  ScoredAnswer =>
    LET score == calc.parsed["consistency_score"].v
        own == DictGet(calc.parsed, "needs_revision", JsonBool(FALSE))
    IN /\ score <= 69 => calc.style.needs_revision = TRUE
       /\ ( /\ score >= 70
            /\ DictGet(calc.parsed, "issues", JsonArray(NoIssues)) = JsonArray(NoIssues)
            /\ DictGet(calc.parsed, "matches_tone", JsonBool(TRUE)) = JsonBool(TRUE)
            /\ DictGet(calc.parsed, "matches_voice", JsonBool(TRUE)) = JsonBool(TRUE) )
          => calc.style.needs_revision = own.v

\* A score of 0.69 with the reviewer's own flag false, no issues, tone and
\* voice matching: the returned flag is true.
C20_Witness ==
  /\ ScoredAnswer
  /\ calc.parsed["consistency_score"] = JsonNumber(69)
  /\ "needs_revision" \in DOMAIN calc.parsed
  /\ calc.parsed["needs_revision"] = JsonBool(FALSE)
  /\ "issues" \in DOMAIN calc.parsed
  /\ calc.parsed["issues"] = JsonArray(NoIssues)
  /\ DictGet(calc.parsed, "matches_tone", JsonBool(FALSE)) = JsonBool(TRUE)
  /\ DictGet(calc.parsed, "matches_voice", JsonBool(FALSE)) = JsonBool(TRUE)
  /\ calc.style.needs_revision = TRUE

\* review_style could not make a review of the answer: it had none it
\* could read, or the answer does not fit the StyleReview model.
NoStyleReview ==
  /\ calc.pc \in {"reviewed", "done"}
  /\ \/ calc.failure \in StyleFailures
     \/ calc.answered /\ DictGet(calc.parsed, "issues", JsonArray(NoIssues)).t # "array"

\* C21: whenever the style reviewer's call raises, returns no content or
\* returns output that cannot be made into a review, review_style returns
\* (nothing is raised) a verdict with an empty issue list and
\* needs_revision false, and the review goes on to the revision test.
C21_FailedStyleReviewPasses ==
  /\ NoStyleReview =>
       /\ calc.style.issues = NoIssues
       /\ calc.style.needs_revision = FALSE
  /\ (NoStyleReview /\ calc.pc = "done") => calc.result = FlagSet(calc.source)

\* The call to the model raised, and the review went on: the revision
\* test was made and found the flag of the source review.
C21_Witness ==
  /\ calc.pc = "done"
  /\ calc.failure = "call_raises"
  /\ calc.style.needs_revision = FALSE
  /\ calc.result


(***************************************************************************)
(* The drafts of one session: BlogWriter.write_blog (blog_writer.py) as    *)
(* the stages call it, SessionManager.update_draft (session.py) and the    *)
(* draft files draft_iter_<iteration>.md.  gen.kind is the front end:      *)
(* "cli" is run_cli_workflow, "legacy" ContentPhase.run, "web" the web     *)
(* workflow and its draft route.  gen.last is the latest change of the     *)
(* draft (history).                                                        *)
(***************************************************************************)

\* str.strip() of the text of a response.
Strip(t) == IF t = " " THEN NoText ELSE t

\* What client.messages.create may do: raise, or return a text.
WriterOutcomes(texts) ==
  {[fails |-> TRUE, text |-> NoText]}
    \cup {[fails |-> FALSE, text |-> t] : t \in texts \cup {" "}}

\* _fallback_transform: the brain dump itself.
fallback_transform(brain_dump) == brain_dump

\* BlogWriter.write_blog: the revision branch is taken when previous_draft
\* and feedback are both truthy, else the initial branch; each branch
\* returns the stripped text, or its fallback when the call raises.
write_blog(brain_dump, previous_draft, feedback, out) ==
  IF previous_draft # NoText /\ feedback
    THEN (IF out.fails THEN previous_draft ELSE Strip(out.text))
    ELSE (IF out.fails THEN fallback_transform(brain_dump) ELSE Strip(out.text))

\* SessionManager.update_draft: current_draft, then the file of the current
\* iteration (a failed write is logged and skipped), then save.
DraftUpdated(g, draft, written) ==
  [g EXCEPT !.current_draft = draft,
            !.files[g.iteration] =
               IF written THEN [exists |-> TRUE, text |-> draft] ELSE @]

\* A run starts on a new session with the idea text.
DraftBegin ==
  /\ gen.pc = "idle"
  /\ \E k \in {"cli", "legacy", "web"} :
       gen' = [gen EXCEPT !.kind = k, !.pc = "generate", !.brain_dump = BriefText]

\* run_draft_generation / _write_initial_draft: write_blog without a
\* previous draft, then update_draft.
DraftGenerate ==
  /\ gen.pc = "generate"
  /\ \E out \in WriterOutcomes(DraftTexts), written \in BOOLEAN :
       LET t == write_blog(gen.brain_dump, NoText, FALSE, out)
       IN gen' = [DraftUpdated(gen, t, written) EXCEPT
                    !.pc = "top",
                    !.last = [kind |-> "initial", failed |-> out.fails,
                              before |-> gen.current_draft]]

\* The loop starts an iteration: increment_iteration accepted, then the
\* reviews (the web workflow does so once, when the first review asks for
\* a revision).
DraftIncrement ==
  /\ gen.pc = "top"
  /\ gen.iteration < MaxDraftIterations
  /\ gen.kind = "web" => gen.iteration = 0
  /\ gen' = [gen EXCEPT !.iteration = @ + 1, !.pc = "reviewed"]

\* The web workflow when the first review asks for nothing.
DraftReviewPasses ==
  /\ gen.kind = "web"
  /\ gen.pc = "top"
  /\ gen.iteration = 0
  /\ gen' = [gen EXCEPT !.pc = "asked"]

\* The revision step: write_blog with the current draft and the feedback
\* dict, then update_draft.
Revised(g, out, written) ==
  LET t == write_blog(g.brain_dump, g.current_draft, TRUE, out)
  IN [DraftUpdated(g, t, written) EXCEPT
        !.last = [kind |-> "revision", failed |-> out.fails,
                  before |-> g.current_draft]]

\* The reviews ask for a revision and it is made before the user is
\* asked: ContentPhase._revise_draft, run_workflow.
DraftAutoRevise ==
  /\ gen.kind \in {"legacy", "web"}
  /\ gen.pc = "reviewed"
  /\ \E out \in WriterOutcomes(RevisedTexts), written \in BOOLEAN :
       gen' = [Revised(gen, out, written) EXCEPT !.pc = "asked"]

\* No revision before the user is asked.
DraftNoRevise ==
  /\ gen.kind \in {"cli", "legacy"}
  /\ gen.pc = "reviewed"
  /\ gen' = [gen EXCEPT !.pc = "asked"]

\* run_cli_workflow after get_feedback: run_revision in the iteration the
\* loop is in.
DraftCliRevise ==
  /\ gen.kind = "cli"
  /\ gen.pc = "asked"
  /\ \E out \in WriterOutcomes(RevisedTexts), written \in BOOLEAN :
       gen' = [Revised(gen, out, written) EXCEPT !.pc = "top", !.passes = @ + 1]

\* The user skips and nothing is revised: run_cli_workflow continues, and
\* _apply_user_feedback returns at once without has_feedback.
DraftSkip ==
  /\ gen.kind \in {"cli", "legacy"}
  /\ gen.pc = "asked"
  /\ gen' = [gen EXCEPT !.pc = "top", !.passes = @ + 1]

\* _apply_user_feedback(increment_after=True): write_blog, then
\* increment_iteration, then update_draft in the new iteration.
DraftLegacyApply ==
  /\ gen.kind = "legacy"
  /\ gen.pc = "asked"
  /\ gen.iteration < MaxDraftIterations
  /\ \E out \in WriterOutcomes(RevisedTexts), written \in BOOLEAN :
       LET t == write_blog(gen.brain_dump, gen.current_draft, TRUE, out)
           g == [gen EXCEPT !.iteration = @ + 1]
       IN gen' = [DraftUpdated(g, t, written) EXCEPT
                    !.pc = "top",
                    !.passes = @ + 1,
                    !.last = [kind |-> "revision", failed |-> out.fails,
                              before |-> gen.current_draft]]

\* PUT /sessions/{id}/draft: the editor saves its content.
DraftEdit ==
  /\ gen.kind = "web"
  /\ gen.pc = "asked"
  /\ \E t \in EditedTexts \cup {NoText}, written \in BOOLEAN :
       gen' = [DraftUpdated(gen, t, written) EXCEPT
                 !.last = [kind |-> "edit", failed |-> FALSE,
                           before |-> gen.current_draft]]

\* The user approves.
DraftApprove ==
  /\ gen.pc = "asked"
  /\ gen' = [gen EXCEPT !.pc = "done",
                        !.passes = IF gen.kind = "web" THEN @ ELSE @ + 1]

draftRest == <<disk, mem, run, obs, prev, runs, faults, outfile, calls,
               fs, w, stream, img, calc, proc, opened, logs, created>>

NextDraft ==
  \/ DraftBegin /\ UNCHANGED draftRest
  \/ DraftGenerate /\ UNCHANGED draftRest
  \/ DraftIncrement /\ UNCHANGED draftRest
  \/ DraftReviewPasses /\ UNCHANGED draftRest
  \/ DraftAutoRevise /\ UNCHANGED draftRest
  \/ DraftNoRevise /\ UNCHANGED draftRest
  \/ DraftCliRevise /\ UNCHANGED draftRest
  \/ DraftSkip /\ UNCHANGED draftRest
  \/ DraftLegacyApply /\ UNCHANGED draftRest
  \/ DraftEdit /\ UNCHANGED draftRest
  \/ DraftApprove /\ UNCHANGED draftRest

SpecDraft == Init /\ [][NextDraft]_vars

\* C22: when the generation call fails during a revision, the step ends
\* with current_draft as it was before the step; when it fails during the
\* initial generation, the step ends with a text derived from the brief.
C22_FailedGenerationFallsBack ==
  /\ (gen.last.kind = "revision" /\ gen.last.failed)
       => gen.current_draft = gen.last.before
  /\ (gen.last.kind = "initial" /\ gen.last.failed)
       => gen.current_draft = fallback_transform(gen.brain_dump)

\* C27: once a per-iteration draft file has been written its content never
\* changes: no two draft updates of a session write the same file.
C27_DraftFilesImmutable ==
  [][\A i \in 0..MaxDraftIterations :
       gen.files[i].exists => gen.files'[i] = gen.files[i]]_vars

\* C31: in the command-line orchestrators, at the end of the k-th pass
\* through the review-revise loop (gen.passes counts the passes ended, by
\* a revision, a skip or an approval) the iteration counter is k.
C31_IterationCountsPasses ==
  (gen.kind \in {"cli", "legacy"} /\ gen.pc \in {"top", "done"}) =>
    gen.iteration = gen.passes


(***************************************************************************)
(* SessionManager.__init__ on a session directory (session.py) over        *)
(* read_json (vendored_toolkit/file_ops.py).  opened.file is state.json:   *)
(* missing, a JSON record, or text that is not JSON; a record may hold a   *)
(* key that SessionState does not have (extra).  opened.atOpen is the file *)
(* as the constructor found it (history).                                  *)
(***************************************************************************)

OpenRecords ==
  [stage : ClosedStages, iteration : 0..MaxIterations, extra : BOOLEAN]

OpenFiles ==
  {NoStateFile}
    \cup {[exists |-> TRUE, json |-> TRUE, rec |-> r] : r \in OpenRecords}
    \cup {[exists |-> TRUE, json |-> FALSE, rec |-> NoStateFile.rec]}

\* asdict and write_json of the state held.
SavedFile(st) == [exists |-> TRUE, json |-> TRUE, rec |-> st]

\* _load_state gives up on the file: a new SessionState.
StartFresh(cause) ==
  opened' = [opened EXCEPT !.pc = "loaded", !.result = "fresh",
                           !.cause = cause, !.state = NoStateFile.rec]

\* SessionManager(session_dir) is called on a directory.
OpenBegin ==
  /\ opened.pc = "idle"
  /\ \E f \in OpenFiles :
       opened' = [opened EXCEPT !.pc = "load_state", !.file = f, !.atOpen = f]

\* _load_state: if self.state_file.exists(), read it; else a new state.
OpenLoadState ==
  /\ opened.pc = "load_state"
  /\ IF opened.file.exists
       THEN opened' = [opened EXCEPT !.pc = "reading"]
       ELSE StartFresh("missing")

\* One attempt of read_json, then SessionState(**data): the record, or an
\* exception that _load_state answers with a new state.  errno 5 is
\* retried while attempts remain.
OpenReadAttempt ==
  /\ opened.pc = "reading"
  /\ \E r \in {"read", "eio", "oserror"} :
       CASE r = "eio" /\ opened.attempt < MaxRetries - 1 ->
              opened' = [opened EXCEPT !.attempt = @ + 1]
         [] r \in {"eio", "oserror"} /\ ~(r = "eio" /\ opened.attempt < MaxRetries - 1) ->
              StartFresh("io_error")
         [] r = "read" /\ ~opened.file.json -> StartFresh("invalid_json")
         [] r = "read" /\ opened.file.json /\ opened.file.rec.extra ->
              StartFresh("unknown_field")
         [] OTHER ->
              opened' = [opened EXCEPT !.pc = "loaded", !.result = "resumed",
                                       !.state = opened.file.rec]

\* __init__ after _load_state: the new state is saved when there is no
\* state file.
OpenInitSave ==
  /\ opened.pc = "loaded"
  /\ opened' = [opened EXCEPT
                  !.pc = "open",
                  !.file = IF @.exists THEN @ ELSE SavedFile(opened.state)]

\* The first mutator of the run: update_stage, which saves.
OpenUpdateStage ==
  /\ opened.pc = "open"
  /\ \E s \in ClosedStages \ {"initialized"} :
       LET st == [opened.state EXCEPT !.stage = s]
       IN opened' = [opened EXCEPT !.pc = "saved", !.state = st,
                                   !.file = SavedFile(st)]

openRest == <<disk, mem, run, obs, prev, runs, faults, outfile, calls,
              fs, w, stream, img, calc, gen, proc, logs, created>>

NextOpen ==
  \/ OpenBegin /\ UNCHANGED openRest
  \/ OpenLoadState /\ UNCHANGED openRest
  \/ OpenReadAttempt /\ UNCHANGED openRest
  \/ OpenInitSave /\ UNCHANGED openRest
  \/ OpenUpdateStage /\ UNCHANGED openRest

SpecOpen == Init /\ [][NextOpen]_vars

\* C23: opening a session gives the fresh-session outcome exactly when the
\* state record does not exist, and the resumed outcome when it exists.
C23_FreshOnlyWhenMissing ==
  opened.result # "none" =>
    (opened.result = "fresh" <=> ~opened.atOpen.exists)

\* C33: a state record that exists but failed to load is never replaced:
\* the file stays as it was when the manager was constructed.
C33_UnloadableRecordKept ==
  (opened.result = "fresh" /\ opened.atOpen.exists) => opened.file = opened.atOpen


(***************************************************************************)
(* The logs of one session: SessionState.user_feedback and                 *)
(* iteration_history (session.py), as run_cli_workflow (cli/main.py) and   *)
(* ContentPhase.run (content_phase.py) drive them.  logs.state is the      *)
(* state in memory, logs.saved the record of state.json, logs.collected    *)
(* the feedback events the front end took from the user (history),         *)
(* logs.last the latest SessionManager call (history).                     *)
(***************************************************************************)

\* add_iteration_history: the entry is tagged with the iteration.
add_iteration_history(st, type) ==
  [st EXCEPT !.iteration_history =
     Append(@, [type |-> type, iteration |-> st.iteration])]

\* add_user_feedback: the feedback is tagged with the iteration.
add_user_feedback(st, action) ==
  [st EXCEPT !.user_feedback =
     Append(@, [action |-> action, iteration |-> st.iteration])]

\* A SessionManager call that ends in save(): memory and record.
LogCall(l, st, op, stage) ==
  [l EXCEPT !.state = st, !.saved = st,
            !.last = [op |-> op, stage |-> stage,
                      historyBefore |-> Len(l.state.iteration_history)]]

FeedbackActions == {"approve", "revise", "skip"}

\* A front end starts on the session.
LogBegin ==
  /\ logs.kind = "none"
  /\ \E k \in {"cli", "legacy"} :
       logs' = [logs EXCEPT !.kind = k, !.pc = "draft"]

\* The draft is written: update_stage("draft_written").
LogDraftStage ==
  /\ logs.pc = "draft"
  /\ logs' = [LogCall(logs, update_stage(logs.state, "draft_written"),
                      "update_stage", "draft_written") EXCEPT !.pc = "top"]

\* The loop starts an iteration: increment_iteration accepted.
LogIncrement ==
  /\ logs.pc = "top"
  /\ logs.state.iteration < MaxLogIterations
  /\ logs' = [LogCall(logs, [logs.state EXCEPT !.iteration = @ + 1],
                      "increment_iteration", logs.state.stage)
               EXCEPT !.pc = "review"]

\* run_review: the reviews are stored, nothing is logged.
LogCliReview ==
  /\ logs.kind = "cli"
  /\ logs.pc = "review"
  /\ logs' = [logs EXCEPT !.pc = "feedback"]

\* _review_sources and _review_style: each review is stored and logged to
\* iteration_history.
LogLegacyReview ==
  /\ logs.kind = "legacy"
  /\ logs.pc = "review"
  /\ LET s1 == add_iteration_history(logs.state, "source_review")
         s2 == add_iteration_history(s1, "style_review")
     IN logs' = [LogCall(LogCall(logs, s1, "add_iteration_history", s1.stage),
                         s2, "add_iteration_history", s2.stage)
                 EXCEPT !.pc = "feedback"]

\* Where the loop goes after the user's answer.
AfterFeedback(action) == IF action = "approve" THEN "final" ELSE "revise"

\* run_cli_workflow: input_handler.get_feedback; the answer is used and
\* not stored.
LogCliFeedback ==
  /\ logs.kind = "cli"
  /\ logs.pc = "feedback"
  /\ \E a \in FeedbackActions :
       logs' = [logs EXCEPT
                  !.collected = Append(@, [action |-> a,
                                           iteration |-> logs.state.iteration]),
                  !.pc = AfterFeedback(a)]

\* _get_user_feedback: the answer goes to add_user_feedback and to
\* add_iteration_history.
LogLegacyFeedback ==
  /\ logs.kind = "legacy"
  /\ logs.pc = "feedback"
  /\ \E a \in FeedbackActions :
       LET s1 == add_user_feedback(logs.state, a)
           s2 == add_iteration_history(s1, "user_feedback")
           l == LogCall(LogCall(logs, s1, "add_user_feedback", s1.stage),
                        s2, "add_iteration_history", s2.stage)
       IN logs' = [l EXCEPT
                     !.collected = Append(@, [action |-> a,
                                              iteration |-> logs.state.iteration]),
                     !.pc = AfterFeedback(a)]

\* The revision is made: update_stage("revision_complete").
LogRevisionStage ==
  /\ logs.pc = "revise"
  /\ logs' = [LogCall(logs, update_stage(logs.state, "revision_complete"),
                      "update_stage", "revision_complete") EXCEPT !.pc = "top"]

\* The user skipped and no revision is made: the loop goes on with the
\* stage as it is.
LogNoRevision ==
  /\ logs.pc = "revise"
  /\ logs.collected[Len(logs.collected)].action = "skip"
  /\ logs' = [logs EXCEPT !.pc = "top"]

\* mark_complete: update_stage("complete").
LogComplete ==
  /\ logs.pc \in {"final", "top"}
  /\ logs.pc = "top" => logs.state.iteration = MaxLogIterations
  /\ logs' = [LogCall(logs, update_stage(logs.state, "complete"),
                      "update_stage", "complete") EXCEPT !.pc = "done"]

logRest == <<disk, mem, run, obs, prev, runs, faults, outfile, calls,
             fs, w, stream, img, calc, gen, proc, opened, created>>

NextLog ==
  \/ LogBegin /\ UNCHANGED logRest
  \/ LogDraftStage /\ UNCHANGED logRest
  \/ LogIncrement /\ UNCHANGED logRest
  \/ LogCliReview /\ UNCHANGED logRest
  \/ LogLegacyReview /\ UNCHANGED logRest
  \/ LogCliFeedback /\ UNCHANGED logRest
  \/ LogLegacyFeedback /\ UNCHANGED logRest
  \/ LogRevisionStage /\ UNCHANGED logRest
  \/ LogNoRevision /\ UNCHANGED logRest
  \/ LogComplete /\ UNCHANGED logRest

SpecLog == Init /\ [][NextLog]_vars

\* C24: every stage transition made through update_stage changes stage,
\* writes the new stage to the persisted record, and appends an entry
\* recording the transition to iteration_history.
C24_StageTransitionLogged ==
  logs.last.op = "update_stage" =>
    /\ logs.state.stage = logs.last.stage
    /\ logs.saved.stage = logs.last.stage
    /\ Len(logs.state.iteration_history) = logs.last.historyBefore + 1

\* C26: every feedback event the front end collects from the user is in
\* user_feedback, tagged with the iteration it was collected in.
C26_FeedbackLogged == logs.state.user_feedback = logs.collected

(***************************************************************************)
(* One RecipeExecutor.execute (web/recipe_executor.py) and the subprocess  *)
(* it spawns.  proc.alive: the subprocess has not exited; proc.stdout and  *)
(* proc.stderr: the pipe has not reached end of file; proc.signals: the    *)
(* signals delivered to the subprocess, in order; proc.exited_in: where    *)
(* execute was when the subprocess exited; proc.clock and proc.grace count *)
(* the two wait_for timeouts in ticks.                                     *)
(***************************************************************************)

\* await proc.wait() returns once the subprocess has exited.
wait_returnsAtOnce(p) == TRUE

wait_returns(p) == ~p.alive

\* Every path of execute that returns puts at most one more message and
\* returns success or failure.
Returned(p, success) ==
  [p EXCEPT !.pc = "returned", !.result = IF success THEN "true" ELSE "false",
            !.messages = @ + 1]

\* execute up to wait_for: the initial message, then create_subprocess_exec,
\* which spawns the subprocess or raises into the outer except clause.
ExecBegin ==
  /\ proc.pc = "idle"
  /\ \/ \E it \in BOOLEAN :
          proc' = [proc EXCEPT !.pc = "streaming", !.spawned = TRUE, !.alive = TRUE,
                               !.ignores_term = it, !.stdout = TRUE, !.stderr = TRUE,
                               !.messages = 1]
     \/ proc' = Returned([proc EXCEPT !.messages = 1], FALSE)

\* read_stream: one line of a pipe is read and put on the queue.
ExecReadLine ==
  /\ proc.pc = "streaming"
  /\ proc.stdout \/ proc.stderr
  /\ proc.messages <= MaxLines
  /\ proc' = [proc EXCEPT !.messages = @ + 1]

\* read_stream: readline returns no bytes (or raises) and the loop ends.
ExecEof ==
  /\ proc.pc = "streaming"
  /\ \/ proc.stdout /\ proc' = [proc EXCEPT !.stdout = FALSE]
     \/ proc.stderr /\ proc' = [proc EXCEPT !.stderr = FALSE]

\* _stream_output after gather: proc.wait(), then the return code decides.
ExecStreamDone ==
  /\ proc.pc = "streaming"
  /\ ~proc.stdout /\ ~proc.stderr
  /\ wait_returns(proc)
  /\ proc' = Returned(proc, proc.returncode = "0")

\* _stream_output: gather raises; failure is returned without waiting.
ExecStreamRaises ==
  /\ proc.pc = "streaming"
  /\ proc.stdout \/ proc.stderr
  /\ proc' = Returned(proc, FALSE)

\* Time passes while the output is streamed.
ExecTick ==
  /\ proc.pc = "streaming"
  /\ proc.clock < StreamTimeout
  /\ proc' = [proc EXCEPT !.clock = @ + 1]

\* wait_for raises TimeoutError: the streaming is cancelled and the error
\* message is put on the queue.
ExecTimeout ==
  /\ proc.pc = "streaming"
  /\ proc.clock = StreamTimeout
  /\ proc' = [proc EXCEPT !.pc = "terminate", !.timed_out = TRUE, !.messages = @ + 1]

\* A signal method of the process object: the signal is delivered to a
\* subprocess that is alive; for one that has exited the call does nothing
\* or raises ProcessLookupError into the outer except clause.
SendSignal(sig, next) ==
  \/ /\ proc.alive
     /\ proc' = [proc EXCEPT !.signals = Append(@, sig), !.pc = next]
  \/ /\ ~proc.alive
     /\ \/ proc' = [proc EXCEPT !.pc = next]
        \/ proc' = Returned(proc, FALSE)

\* proc.terminate().
ExecTerminate ==
  /\ proc.pc = "terminate"
  /\ SendSignal("TERM", "grace")

\* Time passes in wait_for(proc.wait(), timeout=5.0).
ExecGraceTick ==
  /\ proc.pc = "grace"
  /\ proc.alive
  /\ proc.grace < GraceTimeout
  /\ proc' = [proc EXCEPT !.grace = @ + 1]

\* The wait after terminate returns: the except clause returns False.
ExecGraceDone ==
  /\ proc.pc = "grace"
  /\ wait_returns(proc)
  /\ proc' = [proc EXCEPT !.pc = "returned", !.result = "false"]

\* The wait after terminate times out.
ExecGraceTimeout ==
  /\ proc.pc = "grace"
  /\ proc.alive
  /\ proc.grace = GraceTimeout
  /\ proc' = [proc EXCEPT !.pc = "kill"]

\* proc.kill().
ExecKill ==
  /\ proc.pc = "kill"
  /\ SendSignal("KILL", "killwait")

\* await proc.wait() after kill, then return False.
ExecKillWaitDone ==
  /\ proc.pc = "killwait"
  /\ wait_returns(proc)
  /\ proc' = [proc EXCEPT !.pc = "returned", !.result = "false"]

Exited(p, code) ==
  [p EXCEPT !.alive = FALSE, !.returncode = code, !.exited_in = p.pc]

\* The subprocess ends by itself, with success or with an error.
ProcExits ==
  /\ proc.alive
  /\ proc.pc # "returned"
  /\ \E code \in {"0", "1"} : proc' = Exited(proc, code)

\* The subprocess ends on SIGTERM, unless it ignores the signal.
ProcTerminated ==
  /\ proc.alive
  /\ proc.pc # "returned"
  /\ proc.signals # <<>>
  /\ ~proc.ignores_term
  /\ proc' = Exited(proc, "-15")

\* The subprocess ends on SIGKILL.
ProcKilled ==
  /\ proc.alive
  /\ proc.pc # "returned"
  /\ \E i \in 1..Len(proc.signals) : proc.signals[i] = "KILL"
  /\ proc' = Exited(proc, "-9")

execRest == <<disk, mem, run, obs, prev, runs, faults, outfile, calls,
              fs, w, stream, img, calc, gen, opened, logs, created>>

NextExec ==
  \/ ExecBegin /\ UNCHANGED execRest
  \/ ExecReadLine /\ UNCHANGED execRest
  \/ ExecEof /\ UNCHANGED execRest
  \/ ExecStreamDone /\ UNCHANGED execRest
  \/ ExecStreamRaises /\ UNCHANGED execRest
  \/ ExecTick /\ UNCHANGED execRest
  \/ ExecTimeout /\ UNCHANGED execRest
  \/ ExecTerminate /\ UNCHANGED execRest
  \/ ExecGraceTick /\ UNCHANGED execRest
  \/ ExecGraceDone /\ UNCHANGED execRest
  \/ ExecGraceTimeout /\ UNCHANGED execRest
  \/ ExecKill /\ UNCHANGED execRest
  \/ ExecKillWaitDone /\ UNCHANGED execRest
  \/ ProcExits /\ UNCHANGED execRest
  \/ ProcTerminated /\ UNCHANGED execRest
  \/ ProcKilled /\ UNCHANGED execRest

SpecExec == Init /\ [][NextExec]_vars

Sent(sig) == \E i \in 1..Len(proc.signals) : proc.signals[i] = sig

\* C29: when the streaming of execute has timed out, no kill is sent before
\* a terminate, kill is sent only to a subprocess that had not exited when
\* the grace wait ended, and when execute has returned the subprocess has
\* exited and the result is failure.
C29_TimeoutShutsDown ==
  proc.timed_out =>
    /\ \A i \in 1..Len(proc.signals) :
         proc.signals[i] = "KILL" => \E j \in 1..(i - 1) : proc.signals[j] = "TERM"
    /\ Sent("KILL") => proc.exited_in \in {"none", "killwait"}
    /\ proc.pc = "returned" => (~proc.alive /\ proc.result = "false")

\* execute returned after a timeout in which the subprocess ignored the
\* terminate, outlived the grace wait and was killed.
C29_Witness ==
  /\ proc.timed_out
  /\ proc.pc = "returned"
  /\ proc.signals = <<"TERM", "KILL">>
  /\ proc.ignores_term
  /\ proc.returncode = "-9"
  /\ proc.result = "false"

(***************************************************************************)
(* SpecCreate: sessions created by SessionManager() with the default       *)
(* directory (GET /sessions/new, session.py), and the later requests that  *)
(* open .data/blog_creator/<session_id> (run_workflow).  created.clock is  *)
(* the wall clock in ticks of 1/TicksPerSecond second; a directory is      *)
(* named by the second of its timestamp.                                   *)
(***************************************************************************)

\* Time passes.
ClockTick ==
  /\ created.clock < MaxTicks
  /\ created' = [created EXCEPT !.clock = @ + 1]

\* __init__ without session_dir: the directory is named after now() and
\* made, an existing one being accepted (exist_ok).
CreateDefaultDir ==
  /\ created.pc = "idle"
  /\ Len(created.sessions) < MaxSessions
  /\ LET d == strftime(created.clock)
     IN created' = [created EXCEPT !.pc = "load_state", !.session_dir = d,
                                   !.dirs[d].exists = TRUE]

\* _load_state: the record of state.json if the directory has one, else a
\* new SessionState whose session_id is taken from now() again.
CreateLoadState ==
  /\ created.pc = "load_state"
  /\ LET d == created.session_dir
     IN created' = [created EXCEPT
          !.pc = "loaded",
          !.session_id = IF created.dirs[d].session_id # -1
                         THEN created.dirs[d].session_id
                         ELSE strftime(created.clock)]

\* The end of __init__: the new record is saved if there is no state.json.
CreateInitSave ==
  /\ created.pc = "loaded"
  /\ LET d == created.session_dir
     IN created' = [created EXCEPT
          !.pc = "idle",
          !.dirs[d].session_id = IF @ = -1 THEN created.session_id ELSE @,
          !.sessions = Append(@, [session_dir |-> d,
                                  session_id |-> created.session_id])]

\* A later request opens the directory named after the session_id of
\* session i: SessionManager(Path(".data/blog_creator/<session_id>")).
OpenBySessionId(i) ==
  /\ created.pc = "idle"
  /\ \A r \in created.reopened : r.of # i
  /\ LET d == created.sessions[i].session_id
         fresh == created.dirs[d].session_id = -1
         id == IF fresh THEN strftime(created.clock) ELSE created.dirs[d].session_id
     IN created' = [created EXCEPT
          !.dirs[d] = [exists |-> TRUE, session_id |-> id],
          !.reopened = @ \cup {[of |-> i, session_dir |-> d,
                                session_id |-> id, fresh |-> fresh]}]

createRest == <<disk, mem, run, obs, prev, runs, faults, outfile, calls,
                fs, w, stream, img, calc, gen, proc, opened, logs>>

NextCreate ==
  \/ ClockTick /\ UNCHANGED createRest
  \/ CreateDefaultDir /\ UNCHANGED createRest
  \/ CreateLoadState /\ UNCHANGED createRest
  \/ CreateInitSave /\ UNCHANGED createRest
  \/ \E i \in 1..MaxSessions :
       i <= Len(created.sessions) /\ OpenBySessionId(i) /\ UNCHANGED createRest

SpecCreate == Init /\ [][NextCreate]_vars

\* C39: a session created with the default directory has the name of its
\* directory as session_id, opening the directory named after its
\* session_id opens its own directory and loads its record, and two
\* created sessions share neither a directory nor a session_id.
C39_SessionIdNamesDirectory ==
  /\ \A i \in 1..Len(created.sessions) :
       created.sessions[i].session_id = created.sessions[i].session_dir
  /\ \A r \in created.reopened :
       /\ r.session_dir = created.sessions[r.of].session_dir
       /\ ~r.fresh
  /\ \A i, j \in 1..Len(created.sessions) :
       i # j => /\ created.sessions[i].session_dir # created.sessions[j].session_dir
                /\ created.sessions[i].session_id # created.sessions[j].session_id

====
